---- MODULE Spec2Model ----
(***************************************************************************)
(* Storefront back end: the committed database (products, orders with      *)
(* their items) and the service operations that read and write it.  Each   *)
(* action is one request, run in its own session and committed or rolled   *)
(* back as the handling code does.                                         *)
(***************************************************************************)
EXTENDS Integers, Sequences, FiniteSets, TLC

\* ------------------------------------------------------------------ bounds
MaxProducts == 2
MaxOrders == 1
MaxStock == 2
MaxItemQty == 2
MaxItems == 2
ExampleQty == 5
TokenMinutes == 2
MaxClock == 4
MaxCheckouts == 2
PriceLo == 1000
PriceHi == 1500
Fee == 300

VARIABLES products, orders, restored, clock, last, sessions, settings, access_token

vars == <<products, orders, restored, clock, last, sessions, settings, access_token>>

\* Python None for an optional string; a nullable non-string value is a
\* sequence of length at most one.
None == "None"
Null == <<>>
Some(x) == <<x>>

\* ------------------------------------------------------- string handling
\* str.strip() on the strings the requests are drawn from.
Strip(s) ==
    CASE s = " Ali "       -> "Ali"
      [] s = " "           -> ""
      [] s = " p-2 "       -> "p-2"
      [] s = " Cup "       -> "Cup"
      [] s = " Admin@Shop.dz " -> "Admin@Shop.dz"
      [] s = " home "      -> "home"
      [] s = " canceled "  -> "canceled"
      [] s = "CONFIRMED "  -> "CONFIRMED"
      [] OTHER             -> s

\* str.upper() on the same strings.
Upper(s) ==
    CASE s = "home"       -> "HOME"
      [] s = "stop_desk"  -> "STOP_DESK"
      [] s = "canceled"   -> "CANCELED"
      [] s = "delivered"  -> "DELIVERED"
      [] s = "shipped"    -> "SHIPPED"
      [] OTHER            -> s

ALLOWED_DELIVERY_MODES == {"HOME", "STOP_DESK"}
ALLOWED_ORDER_STATUSES == {"PENDING", "CONFIRMED", "DELIVERED", "CANCELED"}

\* ------------------------------------------------------------ small helpers
SeqToSet(s) == {s[i] : i \in 1..Len(s)}

\* Mutant: the sum stops after the first term.
SumSeq_first_only(s) == IF s = <<>> THEN 0 ELSE Head(s)

RECURSIVE SumSeq(_)
SumSeq(s) == IF s = <<>> THEN 0 ELSE Head(s) + SumSeq(Tail(s))

\* --------------------------------------------------------------- requests
Item(pid, q) == [product_id |-> pid, quantity |-> q]

ValidItems == {Item(pid, q) : pid \in 1..(MaxProducts + 1), q \in 1..MaxItemQty}

ValidItemLists == UNION {[1..n -> ValidItems] : n \in 1..MaxItems}

BadItemLists ==
    { <<>>,
      <<Item(1, 1), Item(0, 1)>>,
      <<Item(MaxProducts + 1, MaxStock + 1), Item(1, 0)>> }

BasePayload(items) ==
    [ first_name    |-> "Ali",
      last_name     |-> "Ben",
      phone_number  |-> "0550",
      wilaya        |-> "Alger",
      baladiya      |-> "Casbah",
      delivery_mode |-> "HOME",
      address_line  |-> None,
      delivery_fee  |-> Fee,
      items         |-> items ]

\* One sample item list for the payloads that vary a customer field.
SampleItems == <<Item(1, 1), Item(MaxProducts + 1, MaxStock + 1)>>

FieldVariants ==
    { [BasePayload(SampleItems) EXCEPT !.first_name = " Ali "],
      [BasePayload(SampleItems) EXCEPT !.last_name = " "],
      [BasePayload(SampleItems) EXCEPT !.delivery_fee = -1],
      [BasePayload(SampleItems) EXCEPT !.delivery_mode = "stop_desk"],
      [BasePayload(SampleItems) EXCEPT !.delivery_mode = "AIR"] }

CreateOrderPayloads ==
    {BasePayload(items) : items \in ValidItemLists \cup BadItemLists} \cup FieldVariants

NewStatusInputs == {"PENDING", "CONFIRMED ", " canceled ", "delivered", "shipped"}

OrderIds == 1..(MaxOrders + 1)
ProductIds == 1..(MaxProducts + 1)

ProductPayload(slug, price, quantity, is_active) ==
    [slug |-> slug, name |-> "Mug", price |-> price, quantity |-> quantity, is_active |-> is_active]

ProductPayloads ==
    { ProductPayload("p-1", PriceLo, ExampleQty, TRUE),
      [ProductPayload(" p-2 ", PriceHi, 1, TRUE) EXCEPT !.name = " Cup "],
      ProductPayload("p-3", PriceLo, -1, TRUE) }

\* The item lists of the checkout requests of the shop with its own catalogue.
ShopItemLists ==
    { <<Item(1, ExampleQty)>>,
      <<Item(1, 1), Item(2, 1)>>,
      <<Item(1, 1), Item(1, 1)>>,
      <<Item(2, MaxItemQty)>> }

ShopOrderPayloads == {BasePayload(items) : items \in ShopItemLists}

\* ------------------------------------------------------------- results
\* What the last request was and how it ended: the value returned (the id of
\* the returned row) or the error raised, with the error's details.
NoDetails == [empty |-> TRUE]
Result(op, r) == [op |-> op, error |-> r.error, details |-> r.details, ret |-> r.ret]
Ok(op, ret) == [op |-> op, error |-> "none", details |-> NoDetails, ret |-> Some(ret)]
Err(op, error, details) == [op |-> op, error |-> error, details |-> details, ret |-> Null]

\* ------------------------------------------------------ products service
ProductExists(prods, pid) == pid \in DOMAIN prods

\* Mutant: the lookup skips the soft-deleted rows.
get_product_by_slug_live(prods, slug) ==
    {i \in DOMAIN prods : prods[i].slug = slug /\ prods[i].deleted_at = Null}

\* ids of the rows with Product.slug == slug, deleted or not
get_product_by_slug_any(prods, slug) == {i \in DOMAIN prods : prods[i].slug = slug}

\* ProductsService.create_product followed by the handler's commit
create_product(prods, payload) ==
    LET slug == Strip(payload.slug) IN
    IF slug = ""
    THEN [error |-> "ValidationError", details |-> [slug |-> slug], products |-> prods, ret |-> Null]
    ELSE IF get_product_by_slug_any(prods, slug) # {}
    THEN [error |-> "ProductSlugConflict", details |-> [slug |-> slug], products |-> prods, ret |-> Null]
    ELSE [error |-> "none", details |-> NoDetails,
          products |-> Append(prods, [ slug       |-> slug,
                                       name       |-> Strip(payload.name),
                                       price      |-> payload.price,
                                       quantity   |-> payload.quantity,
                                       is_active  |-> payload.is_active,
                                       deleted_at |-> Null ]),
          ret |-> Some(Len(prods) + 1)]

\* ProductsService.update_product followed by the handler's commit
update_product(prods, pid, payload) ==
    LET slug == Strip(payload.slug) IN
    IF ~ProductExists(prods, pid)
    THEN [error |-> "ProductNotFound", details |-> [product_id |-> pid], products |-> prods, ret |-> Null]
    ELSE IF slug = ""
    THEN [error |-> "ValidationError", details |-> [slug |-> slug], products |-> prods, ret |-> Null]
    ELSE IF slug # prods[pid].slug /\ (get_product_by_slug_any(prods, slug) \ {pid}) # {}
    THEN [error |-> "ProductSlugConflict", details |-> [slug |-> slug], products |-> prods, ret |-> Null]
    ELSE [error |-> "none", details |-> NoDetails,
          products |-> [prods EXCEPT ![pid] = [ slug       |-> slug,
                                                name       |-> Strip(payload.name),
                                                price      |-> payload.price,
                                                quantity   |-> payload.quantity,
                                                is_active  |-> payload.is_active,
                                                deleted_at |-> @.deleted_at ]],
          ret |-> Some(pid)]

\* Mutant: the schema does not bound the quantity.
ProductSchemaValid_quantity_unchecked(payload) ==
    /\ payload.slug # ""
    /\ payload.name # ""
    /\ payload.price >= 0

\* ProductCreateIn and ProductUpdateIn: the framework answers a body that
\* breaks a field constraint before the handler runs
ProductSchemaValid(payload) ==
    /\ payload.slug # ""
    /\ payload.name # ""
    /\ payload.price >= 0
    /\ payload.quantity >= 0

RequestValidationError(prods) ==
    [error |-> "RequestValidationError", details |-> NoDetails, products |-> prods, ret |-> Null]

\* ProductsRepository.set_product_active
set_product_active(prods, pid, is_active) == [prods EXCEPT ![pid].is_active = is_active]

\* Mutant: every soft delete stamps the row again.
soft_delete_product_restamps(prods, pid, now) == [prods EXCEPT ![pid].deleted_at = Some(now)]

\* ProductsRepository.soft_delete_product: keeps an existing deleted_at
soft_delete_product(prods, pid, now) ==
    IF prods[pid].deleted_at = Null THEN [prods EXCEPT ![pid].deleted_at = Some(now)] ELSE prods

\* ------------------------------------------------------- product reads
\* Mutant: the visibility filter forgets the soft delete.
public_visibility_filter_active_only(p) == p.is_active = TRUE

\* ProductsRepository._public_visibility_filter
public_visibility_filter(p) == p.is_active = TRUE /\ p.deleted_at = Null

\* ProductsRepository._apply_filters, for the two price bounds (Null: not given)
apply_filters(p, min_price, max_price) ==
    /\ min_price # Null => p.price >= min_price[1]
    /\ max_price # Null => p.price <= max_price[1]

\* ORDER BY created_at DESC, id DESC: the ids of S, the newest row first
\* (ids are handed out in the order of creation)
RECURSIVE OrderDesc(_)
OrderDesc(S) ==
    IF S = {} THEN <<>>
    ELSE LET m == CHOOSE x \in S : \A y \in S : y <= x
         IN  <<m>> \o OrderDesc(S \ {m})

\* the page and page_size the services pass on to the repository
ClampPage(page) == IF page < 1 THEN 1 ELSE page
ClampPageSize(page_size) ==
    IF page_size < 1 THEN 1 ELSE IF page_size > 100 THEN 100 ELSE page_size

\* LIMIT page_size OFFSET (page - 1) * page_size
Paginate(rows, page, page_size) ==
    LET offset == (ClampPage(page) - 1) * ClampPageSize(page_size)
        upto   == IF offset + ClampPageSize(page_size) < Len(rows)
                  THEN offset + ClampPageSize(page_size) ELSE Len(rows)
    IN  SubSeq(rows, offset + 1, upto)

\* ProductsService.list_public_products: the ids of the rows of the page
\* and the total of the count query
list_public_products(prods, page, page_size, min_price, max_price) ==
    LET match == {pid \in DOMAIN prods :
                     /\ public_visibility_filter(prods[pid])
                     /\ apply_filters(prods[pid], min_price, max_price)}
    IN  [items |-> Paginate(OrderDesc(match), page, page_size), total |-> Cardinality(match)]

\* ProductsService.get_public_product_by_slug
get_public_product_by_slug(prods, slug) ==
    LET key   == Strip(slug)
        found == {pid \in DOMAIN prods : public_visibility_filter(prods[pid]) /\ prods[pid].slug = key}
    IN  IF key = "" \/ found = {}
        THEN [error |-> "ProductNotFound", details |-> [slug |-> key], ret |-> Null]
        ELSE [error |-> "none", details |-> NoDetails, ret |-> Some(CHOOSE pid \in found : TRUE)]

\* ProductsService.list_admin_products (is_active Null: not given)
list_admin_products(prods, page, page_size, is_active, include_deleted) ==
    LET match == {pid \in DOMAIN prods :
                     /\ ~include_deleted => prods[pid].deleted_at = Null
                     /\ is_active # Null => prods[pid].is_active = is_active[1]}
    IN  [items |-> Paginate(OrderDesc(match), page, page_size), total |-> Cardinality(match)]

\* The query parameters the listings are called with.
Pages == 0..MaxProducts
PageSizes == 0..MaxProducts
PriceFilters == {Null, Some(PriceHi)}
ActiveFilters == {Null, Some(TRUE), Some(FALSE)}
QuerySlugs == {"", " ", "p-1", "p-2", " p-2 ", "p-3"}

\* -------------------------------------------------------- orders service
\* Mutant: the query has no deleted_at filter.
get_active_products_by_ids_with_deleted(prods, product_ids) ==
    {pid \in SeqToSet(product_ids) :
        /\ pid \in DOMAIN prods
        /\ prods[pid].is_active = TRUE}

\* OrdersRepository.get_active_products_by_ids: the ids of the purchasable rows
get_active_products_by_ids(prods, product_ids) ==
    {pid \in SeqToSet(product_ids) :
        /\ pid \in DOMAIN prods
        /\ prods[pid].is_active = TRUE
        /\ prods[pid].deleted_at = Null}

\* Mutant: a repeated product_id overwrites the quantity instead of adding.
RECURSIVE MergeItems_overwrite(_, _)
MergeItems_overwrite(items, acc) ==
    IF items = <<>> THEN acc
    ELSE LET it == Head(items)
             at == {i \in 1..Len(acc) : acc[i].product_id = it.product_id}
         IN  IF at = {}
             THEN MergeItems_overwrite(Tail(items), Append(acc, Item(it.product_id, it.quantity)))
             ELSE MergeItems_overwrite(Tail(items),
                             [i \in 1..Len(acc) |->
                                 IF i \in at THEN Item(acc[i].product_id, it.quantity)
                                 ELSE acc[i]])

\* requested_qty_by_pid: a dict keeps its keys in order of first insertion, so
\* it is a sequence of (product_id, quantity) entries.
RECURSIVE MergeItems(_, _)
MergeItems(items, acc) ==
    IF items = <<>> THEN acc
    ELSE LET it == Head(items)
             at == {i \in 1..Len(acc) : acc[i].product_id = it.product_id}
         IN  IF at = {}
             THEN MergeItems(Tail(items), Append(acc, Item(it.product_id, 0 + it.quantity)))
             ELSE MergeItems(Tail(items),
                             [i \in 1..Len(acc) |->
                                 IF i \in at THEN Item(acc[i].product_id, acc[i].quantity + it.quantity)
                                 ELSE acc[i]])

\* Mutant: the items are taken as they come.
requested_qty_by_pid_unmerged(items) == items

requested_qty_by_pid(items) == MergeItems(items, <<>>)

\* OrdersService._validate_create_payload: the key of the details of the
\* first violation, "" when the payload is accepted
RECURSIVE ValidateItems(_)
ValidateItems(items) ==
    IF items = <<>> THEN ""
    ELSE IF Head(items).product_id <= 0 THEN "product_id"
    ELSE IF Head(items).quantity <= 0 THEN "quantity"
    ELSE ValidateItems(Tail(items))

\* Mutant: a field of blanks counts as filled in.
Blank_empty_only(v) == v = ""

Blank(v) == v = "" \/ Strip(v) = ""

validate_create_payload(payload) ==
    IF Len(payload.items) = 0 THEN "items"
    ELSE IF payload.delivery_fee < 0 THEN "delivery_fee"
    ELSE IF Upper(Strip(payload.delivery_mode)) \notin ALLOWED_DELIVERY_MODES THEN "delivery_mode"
    ELSE IF Blank(payload.first_name) THEN "first_name"
    ELSE IF Blank(payload.last_name) THEN "last_name"
    ELSE IF Blank(payload.phone_number) THEN "phone_number"
    ELSE IF Blank(payload.wilaya) THEN "wilaya"
    ELSE IF Blank(payload.baladiya) THEN "baladiya"
    ELSE ValidateItems(payload.items)

\* Mutant: the stock validation stops at the first shortfall.
insufficient_fail_fast(prods, requested) ==
    LET short(e) == prods[e.product_id].quantity < e.quantity
        row(e)   == [product_id |-> e.product_id, requested |-> e.quantity,
                     available |-> prods[e.product_id].quantity]
        picked   == SelectSeq(requested, short)
    IN  IF picked = <<>> THEN <<>> ELSE <<row(picked[1])>>

\* Mutant: the comparison lets a request exceed the stock by one.
insufficient_off_by_one(prods, requested) ==
    LET short(e) == prods[e.product_id].quantity + 1 < e.quantity
        row(e)   == [product_id |-> e.product_id, requested |-> e.quantity,
                     available |-> prods[e.product_id].quantity]
        picked   == SelectSeq(requested, short)
    IN  [i \in 1..Len(picked) |-> row(picked[i])]

\* the stock validation loop of create_order
insufficient(prods, requested) ==
    LET short(e) == prods[e.product_id].quantity < e.quantity
        row(e)   == [product_id |-> e.product_id, requested |-> e.quantity,
                     available |-> prods[e.product_id].quantity]
        picked   == SelectSeq(requested, short)
    IN  [i \in 1..Len(picked) |-> row(picked[i])]

\* the snapshot loop of create_order
order_items(prods, requested) ==
    [i \in 1..Len(requested) |->
        LET p == prods[requested[i].product_id] IN
        [ product_id   |-> requested[i].product_id,
          product_slug |-> p.slug,
          product_name |-> p.name,
          unit_price   |-> p.price,
          quantity     |-> requested[i].quantity,
          line_total   |-> p.price * requested[i].quantity ]]

\* Mutant: every line takes one unit, whatever its quantity.
RECURSIVE decrement_stock_by_one(_, _)
decrement_stock_by_one(prods, requested) ==
    IF requested = <<>> THEN prods
    ELSE decrement_stock_by_one([prods EXCEPT ![Head(requested).product_id].quantity = @ - 1],
                                Tail(requested))

\* the stock decrement loop of create_order
RECURSIVE decrement_stock(_, _)
decrement_stock(prods, requested) ==
    IF requested = <<>> THEN prods
    ELSE decrement_stock([prods EXCEPT ![Head(requested).product_id].quantity = @ - Head(requested).quantity],
                         Tail(requested))

\* The step of the write phase of create_order at which the database fails.
WriteFaults == {"none", "update_stock", "insert_order", "insert_item", "commit"}

\* Mutant: every statement of the write phase is committed as it is issued.
write_phase_autocommit(prods, ords, requested, order, fault) ==
    LET decremented == decrement_stock(prods, requested)
        bare        == Append(ords, [order EXCEPT !.items = <<>>])
        partial     == Append(ords, [order EXCEPT !.items = SubSeq(order.items, 1, Len(order.items) - 1)])
        full        == Append(ords, order)
    IN  CASE fault = "update_stock" -> [error |-> "DatabaseError", products |-> prods, orders |-> ords]
          [] fault = "insert_order" -> [error |-> "DatabaseError", products |-> decremented, orders |-> ords]
          [] fault = "insert_item"  -> [error |-> "DatabaseError", products |-> decremented, orders |-> partial]
          [] fault = "commit"       -> [error |-> "DatabaseError", products |-> decremented, orders |-> full]
          [] OTHER                  -> [error |-> "none", products |-> decremented, orders |-> full]

\* The transaction of create_order: the stock updates and the order insert
\* are flushed together, the item inserts after them, then the commit; the
\* rows written so far are the session's own until the commit, and the
\* rollback of the except branch discards them.
write_phase(prods, ords, requested, order, fault) ==
    LET decremented == decrement_stock(prods, requested)
        bare        == Append(ords, [order EXCEPT !.items = <<>>])
        full        == Append(ords, order)
        session     ==
            CASE fault = "update_stock" -> [products |-> prods, orders |-> ords]
              [] fault = "insert_order" -> [products |-> decremented, orders |-> ords]
              [] fault = "insert_item"  -> [products |-> decremented, orders |-> bare]
              [] OTHER                  -> [products |-> decremented, orders |-> full]
    IN  IF fault = "none"
        THEN [error |-> "none", products |-> session.products, orders |-> session.orders]
        ELSE [error |-> "DatabaseError", products |-> prods, orders |-> ords]

\* OrdersService.create_order when the database fails at the step fault of
\* the write phase: the error raised or the order committed
create_order_with(prods, ords, payload, fault) ==
    LET invalid     == validate_create_payload(payload)
        requested   == requested_qty_by_pid(payload.items)
        product_ids == [i \in 1..Len(requested) |-> requested[i].product_id]
        found       == get_active_products_by_ids(prods, product_ids)
        missing     == SelectSeq(product_ids, LAMBDA pid : pid \notin found)
        shortfalls  == insufficient(prods, requested)
        items       == order_items(prods, requested)
        items_subtotal == SumSeq([i \in 1..Len(items) |-> items[i].line_total])
        order == [ status           |-> "PENDING",
                   first_name       |-> Strip(payload.first_name),
                   last_name        |-> Strip(payload.last_name),
                   phone_number     |-> Strip(payload.phone_number),
                   wilaya           |-> Strip(payload.wilaya),
                   baladiya         |-> Strip(payload.baladiya),
                   delivery_mode    |-> Upper(Strip(payload.delivery_mode)),
                   address_line     |-> IF payload.address_line \in {None, ""} THEN None
                                        ELSE Strip(payload.address_line),
                   items_subtotal   |-> items_subtotal,
                   delivery_fee     |-> payload.delivery_fee,
                   total_amount     |-> items_subtotal + payload.delivery_fee,
                   sheets_status    |-> "PENDING",
                   sheets_synced_at |-> Null,
                   sheets_error     |-> None,
                   items            |-> items ]
        unchanged(error, details) ==
            [error |-> error, details |-> details, products |-> prods, orders |-> ords, ret |-> Null]
    IN  IF invalid # "" THEN unchanged("InvalidOrderPayload", [field |-> invalid])
        ELSE IF missing # <<>> THEN unchanged("ProductUnavailable", [missing_product_ids |-> missing])
        ELSE IF shortfalls # <<>> THEN unchanged("InsufficientStock", [items |-> shortfalls])
        ELSE LET w == write_phase(prods, ords, requested, order, fault) IN
             [ error    |-> w.error,
               details  |-> NoDetails,
               products |-> w.products,
               orders   |-> w.orders,
               ret      |-> IF w.error = "none" THEN Some(Len(ords) + 1) ELSE Null ]

\* OrdersService.create_order on a database that does not fail
create_order(prods, ords, payload) == create_order_with(prods, ords, payload, "none")

\* Mutants of the transition table.
allowed_reopen(old) ==
    CASE old = "PENDING"   -> {"CONFIRMED", "CANCELED"}
      [] old = "CONFIRMED" -> {"DELIVERED", "CANCELED"}
      [] old = "DELIVERED" -> {}
      [] old = "CANCELED"  -> {"CONFIRMED"}
      [] OTHER             -> {}

allowed_cancel_delivered(old) ==
    CASE old = "PENDING"   -> {"CONFIRMED", "CANCELED"}
      [] old = "CONFIRMED" -> {"DELIVERED", "CANCELED"}
      [] old = "DELIVERED" -> {"CANCELED"}
      [] old = "CANCELED"  -> {}
      [] OTHER             -> {}

allowed_skip_confirm(old) ==
    CASE old = "PENDING"   -> {"CONFIRMED", "DELIVERED", "CANCELED"}
      [] old = "CONFIRMED" -> {"DELIVERED", "CANCELED"}
      [] old = "DELIVERED" -> {}
      [] old = "CANCELED"  -> {}
      [] OTHER             -> {}

\* the transition table of set_order_status
allowed(old) ==
    CASE old = "PENDING"   -> {"CONFIRMED", "CANCELED"}
      [] old = "CONFIRMED" -> {"DELIVERED", "CANCELED"}
      [] old = "DELIVERED" -> {}
      [] old = "CANCELED"  -> {}
      [] OTHER             -> {}

\* Mutant: the restore looks the products up through the purchasable filter.
RECURSIVE restore_stock_for_order_active_only(_, _)
restore_stock_for_order_active_only(prods, items) ==
    IF items = <<>> THEN prods
    ELSE LET it == Head(items) IN
         restore_stock_for_order_active_only(
             IF /\ it.product_id \in DOMAIN prods
                /\ prods[it.product_id].is_active
                /\ prods[it.product_id].deleted_at = Null
             THEN [prods EXCEPT ![it.product_id].quantity = @ + it.quantity]
             ELSE prods,
             Tail(items))

\* OrdersService._restore_stock_for_order: every item's quantity is added to
\* the product row with its product_id, whatever that row's flags
RECURSIVE restore_stock_for_order(_, _)
restore_stock_for_order(prods, items) ==
    IF items = <<>> THEN prods
    ELSE LET it == Head(items) IN
         restore_stock_for_order(
             IF it.product_id \in DOMAIN prods
             THEN [prods EXCEPT ![it.product_id].quantity = @ + it.quantity]
             ELSE prods,
             Tail(items))

\* Mutant: no early return for a request of the current status.
same_status_never(old, ns) == FALSE

\* the early return of set_order_status
same_status(old, ns) == old = ns

\* Mutant: a cancellation takes the returned units off the order items.
set_order_status_returns_items(prods, ords, calls, order_id, new_status) ==
    LET ns  == Upper(Strip(new_status))
        old == Upper(Strip(ords[order_id].status))
        unchanged(error, details) ==
            [error |-> error, details |-> details, old |-> old, products |-> prods, orders |-> ords,
             restored |-> calls, ret |-> Null]
        not_read(error, details) ==
            [error |-> error, details |-> details, old |-> None, products |-> prods, orders |-> ords,
             restored |-> calls, ret |-> Null]
    IN  IF ns \notin ALLOWED_ORDER_STATUSES
        THEN not_read("InvalidOrderPayload", [status |-> new_status])
        ELSE IF order_id \notin DOMAIN ords
        THEN not_read("OrderNotFound", NoDetails)
        ELSE IF same_status(old, ns)
        THEN [unchanged("none", NoDetails) EXCEPT !.ret = Some(order_id)]
        ELSE IF ns \notin allowed(old)
        THEN unchanged("InvalidTransition", [from |-> old, to |-> ns])
        ELSE [ error    |-> "none",
               details  |-> NoDetails,
               old      |-> old,
               products |-> IF ns = "CANCELED"
                            THEN restore_stock_for_order(prods, ords[order_id].items)
                            ELSE prods,
               orders   |-> IF ns = "CANCELED"
                            THEN [ords EXCEPT ![order_id].status = ns,
                                              ![order_id].items =
                                                  [k \in DOMAIN @ |-> [@[k] EXCEPT !.quantity = 0,
                                                                                   !.line_total = 0]]]
                            ELSE [ords EXCEPT ![order_id].status = ns],
               restored |-> IF ns = "CANCELED" THEN [calls EXCEPT ![order_id] = @ + 1] ELSE calls,
               ret      |-> Some(order_id) ]

\* OrdersService.set_order_status: the error raised or the order returned;
\* calls counts, per order, the calls of _restore_stock_for_order
set_order_status(prods, ords, calls, order_id, new_status) ==
    LET ns  == Upper(Strip(new_status))
        old == Upper(Strip(ords[order_id].status))
        unchanged(error, details) ==
            [error |-> error, details |-> details, old |-> old, products |-> prods, orders |-> ords,
             restored |-> calls, ret |-> Null]
        not_read(error, details) ==
            [error |-> error, details |-> details, old |-> None, products |-> prods, orders |-> ords,
             restored |-> calls, ret |-> Null]
    IN  IF ns \notin ALLOWED_ORDER_STATUSES
        THEN not_read("InvalidOrderPayload", [status |-> new_status])
        ELSE IF order_id \notin DOMAIN ords
        THEN not_read("OrderNotFound", NoDetails)
        ELSE IF same_status(old, ns)
        THEN [unchanged("none", NoDetails) EXCEPT !.ret = Some(order_id)]
        ELSE IF ns \notin allowed(old)
        THEN unchanged("InvalidTransition", [from |-> old, to |-> ns])
        ELSE [ error    |-> "none",
               details  |-> NoDetails,
               old      |-> old,
               products |-> IF ns = "CANCELED"
                            THEN restore_stock_for_order(prods, ords[order_id].items)
                            ELSE prods,
               orders   |-> [ords EXCEPT ![order_id].status = ns],
               restored |-> IF ns = "CANCELED" THEN [calls EXCEPT ![order_id] = @ + 1] ELSE calls,
               ret      |-> Some(order_id) ]

\* ------------------------------------------------------------ sheets sync
\* The step of a sync attempt that fails: reading the order ("load") and
\* flushing the result ("write") fail in the database, the three others in
\* the spreadsheet integration.
SyncFaults == {"none", "load", "client", "row", "append", "write"}

SheetsFaults == {"client", "row", "append"}

\* str(e) of the exception the failing step raises
ErrorMessage(fault) ==
    CASE fault = "client" -> "Incorrect padding"
      [] fault = "row"    -> ""
      [] fault = "append" -> "HttpError 600 characters"
      [] OTHER            -> None

\* s[:500] on these messages
Truncate500(s) ==
    CASE s = "HttpError 600 characters" -> "HttpError 500 characters"
      [] OTHER                          -> s

\* len(s) of the strings a sheets_error can hold
StrLen(s) ==
    CASE s = "HttpError 600 characters" -> 600
      [] s = "HttpError 500 characters" -> 500
      [] s = "Unknown sheets error"     -> 20
      [] s = "Incorrect padding"        -> 17
      [] s = "test failure"             -> 12
      [] OTHER                          -> 0

\* Mutant: a SUCCESS keeps the error of the attempt before it.
set_sheets_sync_result_keeps_error(order, status, error, now) ==
    IF status = "SUCCESS"
    THEN [order EXCEPT !.sheets_status = status, !.sheets_synced_at = Some(now)]
    ELSE IF status = "FAILED"
    THEN [order EXCEPT !.sheets_status = status, !.sheets_synced_at = Null,
                       !.sheets_error = Truncate500(IF error \in {None, ""} THEN "Unknown sheets error"
                                                    ELSE error)]
    ELSE [order EXCEPT !.sheets_status = status, !.sheets_synced_at = Null, !.sheets_error = None]

\* OrdersRepository.set_sheets_sync_result: the order as the session holds
\* it after the flush
set_sheets_sync_result(order, status, error, now) ==
    IF status = "SUCCESS"
    THEN [order EXCEPT !.sheets_status = status, !.sheets_synced_at = Some(now), !.sheets_error = None]
    ELSE IF status = "FAILED"
    THEN [order EXCEPT !.sheets_status = status, !.sheets_synced_at = Null,
                       !.sheets_error = Truncate500(IF error \in {None, ""} THEN "Unknown sheets error"
                                                    ELSE error)]
    ELSE [order EXCEPT !.sheets_status = status, !.sheets_synced_at = Null, !.sheets_error = None]

\* Mutant: no try/except around the spreadsheet steps.
try_sync_order_to_sheets_uncaught(ords, order_id, fault, now) ==
    IF fault = "load"
    THEN [raised |-> "DatabaseError", orders |-> ords, appended |-> FALSE]
    ELSE IF order_id \notin DOMAIN ords
    THEN [raised |-> "none", orders |-> ords, appended |-> FALSE]
    ELSE IF fault \in SheetsFaults
    THEN [raised |-> "SheetsError", orders |-> ords, appended |-> FALSE]
    ELSE IF fault = "write"
    THEN [raised |-> "PendingRollbackError", orders |-> ords, appended |-> TRUE]
    ELSE [raised |-> "none",
          orders |-> [ords EXCEPT ![order_id] = set_sheets_sync_result(@, "SUCCESS", None, now)],
          appended |-> TRUE]

\* try_sync_order_to_sheets in a session that sees the orders ords: the
\* exception that leaves the function ("none" when it returns), the orders
\* as the session holds them afterwards (flushed, not committed), and
\* whether the row was appended to the spreadsheet.  The read of the order
\* is outside the try block; a flush that fails leaves the session unusable
\* until a rollback, so the write of FAILED in the except branch fails too.
try_sync_order_to_sheets(ords, order_id, fault, now) ==
    IF fault = "load"
    THEN [raised |-> "DatabaseError", orders |-> ords, appended |-> FALSE]
    ELSE IF order_id \notin DOMAIN ords
    THEN [raised |-> "none", orders |-> ords, appended |-> FALSE]
    ELSE IF fault \in SheetsFaults
    THEN [raised |-> "none",
          orders |-> [ords EXCEPT ![order_id] = set_sheets_sync_result(@, "FAILED", ErrorMessage(fault), now)],
          appended |-> FALSE]
    ELSE IF fault = "write"
    THEN [raised |-> "PendingRollbackError", orders |-> ords, appended |-> TRUE]
    ELSE [raised |-> "none",
          orders |-> [ords EXCEPT ![order_id] = set_sheets_sync_result(@, "SUCCESS", None, now)],
          appended |-> TRUE]

\* Mutant: no try/except around the sync, whose spreadsheet failures reach
\* the caller.
retry_sheets_sync_unguarded(ords, order_id, fault, now) ==
    IF order_id \notin DOMAIN ords
    THEN [error |-> "OrderNotFound", returned |-> Null, appended |-> FALSE]
    ELSE LET r == try_sync_order_to_sheets(ords, order_id, fault, now) IN
         IF r.raised # "none"
         THEN [error |-> r.raised, returned |-> Null, appended |-> r.appended]
         ELSE IF fault \in SheetsFaults
         THEN [error |-> "SheetsError", returned |-> Null, appended |-> r.appended]
         ELSE [error |-> "none", returned |-> Some(r.orders[order_id]), appended |-> r.appended]

\* OrdersService.retry_sheets_sync: the error raised or the order returned,
\* as the session holds it.  An exception of the sync is swallowed; the
\* read that follows it runs in the same session, whose transaction the
\* failed statement has left unusable, and raises in turn.
retry_sheets_sync(ords, order_id, fault, now) ==
    IF order_id \notin DOMAIN ords
    THEN [error |-> "OrderNotFound", returned |-> Null, appended |-> FALSE]
    ELSE LET r == try_sync_order_to_sheets(ords, order_id, fault, now) IN
         IF r.raised # "none"
         THEN [error |-> r.raised, returned |-> Null, appended |-> r.appended]
         ELSE [error |-> "none", returned |-> Some(r.orders[order_id]), appended |-> r.appended]

\* ------------------------------------------------------------ admin auth
\* str.lower() on the e-mail addresses of the logins.
Lower(s) ==
    CASE s = "Admin@Shop.dz" -> "admin@shop.dz"
      [] OTHER               -> s

\* Settings: the admin identity and the token parameters of the
\* environment; the expiry is counted in ticks of the clock.
Settings(admin_email, admin_password) ==
    [ admin_email    |-> admin_email,
      admin_password |-> admin_password,
      jwt_secret_key |-> "k1",
      jwt_access_token_expires_minutes |-> TokenMinutes ]

DefaultSettings == Settings("admin@shop.dz", "pw")

\* jwt.encode: the claims and the key that signed them
Token(payload, key) == [payload |-> payload, key |-> key]

\* create_access_token
create_access_token(subject, s, now) ==
    Token([ sub  |-> subject,
            iat  |-> now,
            exp  |-> now + s.jwt_access_token_expires_minutes,
            type |-> "access" ],
          s.jwt_secret_key)

AuthError(details) == [error |-> "auth_error", details |-> details, payload |-> Null]

\* Mutant: the expiry is not looked at.
decode_access_token_ignores_exp(token, s, now) ==
    IF "payload" \notin DOMAIN token \/ token.key # s.jwt_secret_key
    THEN AuthError([reason |-> "invalid"])
    ELSE IF "iat" \in DOMAIN token.payload /\ token.payload.iat > now
    THEN AuthError([reason |-> "invalid"])
    ELSE IF "type" \notin DOMAIN token.payload
    THEN AuthError([type |-> None])
    ELSE IF token.payload.type # "access"
    THEN AuthError([type |-> token.payload.type])
    ELSE IF "sub" \notin DOMAIN token.payload
    THEN AuthError([missing |-> "sub"])
    ELSE [error |-> "none", details |-> NoDetails, payload |-> Some(token.payload)]

\* decode_access_token: jwt.decode refuses a string that is no token, a
\* signature made with another key, an iat in the future and an exp that
\* has been reached; then the type marker and the subject are looked at
decode_access_token(token, s, now) ==
    IF "payload" \notin DOMAIN token \/ token.key # s.jwt_secret_key
    THEN AuthError([reason |-> "invalid"])
    ELSE IF "iat" \in DOMAIN token.payload /\ token.payload.iat > now
    THEN AuthError([reason |-> "invalid"])
    ELSE IF "exp" \in DOMAIN token.payload /\ token.payload.exp <= now
    THEN AuthError([reason |-> "expired"])
    ELSE IF "type" \notin DOMAIN token.payload
    THEN AuthError([type |-> None])
    ELSE IF token.payload.type # "access"
    THEN AuthError([type |-> token.payload.type])
    ELSE IF "sub" \notin DOMAIN token.payload
    THEN AuthError([missing |-> "sub"])
    ELSE [error |-> "none", details |-> NoDetails, payload |-> Some(token.payload)]

\* require_admin on the cookie of the request (Null: no cookie, or an
\* empty one)
require_admin(cookie, s, now) ==
    IF cookie = Null
    THEN [error |-> "auth_required", details |-> NoDetails, payload |-> Null]
    ELSE LET d == decode_access_token(cookie[1], s, now) IN
         IF d.error # "none" THEN d
         ELSE IF d.payload[1].sub # s.admin_email
         THEN [error |-> "not_admin", details |-> NoDetails, payload |-> Null]
         ELSE d

\* admin_login: whether the credentials are accepted and the cookie the
\* response sets (Null: none)
admin_login(email, password, s, now) ==
    LET e == Lower(Strip(email)) IN
    IF e # Lower(Strip(s.admin_email)) \/ password # s.admin_password
    THEN [authenticated |-> FALSE, set_cookie |-> Null]
    ELSE [authenticated |-> TRUE, set_cookie |-> Some(create_access_token(e, s, now))]

\* ------------------------------------------------------------------ state
\* The database sessions of the requests in flight (get_db opens one per
\* request and closes it when the request ends).  A request that the model
\* runs in one step opens and closes its session within the step.
Sessions == {"s1", "s2"}

Closed == [pc |-> "closed"]

\* The catalogue the administrator has created before the shop opens: two
\* create_product requests on the empty table.
Catalogue ==
    create_product(create_product(<<>>, ProductPayload("p-1", PriceLo, MaxStock, TRUE)).products,
                   ProductPayload(" p-2 ", PriceHi, 1, TRUE)).products

Init ==
    /\ products = Catalogue
    /\ orders = <<>>
    /\ restored = <<>>
    /\ clock = 1
    /\ last = Ok("start", 0)
    /\ sessions = [s \in Sessions |-> Closed]
    /\ settings = DefaultSettings
    /\ access_token = Null

\* ---------------------------------------------------------------- actions
\* POST /orders as far as OrdersService.create_order
CreateOrder(payload) ==
    \E r \in {create_order(products, orders, payload)} :
    /\ r.error = "none" => Len(orders) < MaxOrders
    /\ products' = r.products
    /\ orders' = r.orders
    /\ restored' = IF r.error = "none" THEN Append(restored, 0) ELSE restored
    /\ last' = [op |-> "create_order", n_items |-> Len(payload.items),
                error |-> r.error, details |-> r.details, ret |-> r.ret]
    /\ UNCHANGED <<clock, sessions, settings, access_token>>

SetStatus(op, order_id, new_status) ==
    \E r \in {set_order_status(products, orders, restored, order_id, new_status)} :
    /\ products' = r.products
    /\ orders' = r.orders
    /\ restored' = r.restored
    /\ last' = [op |-> op, order_id |-> order_id, to |-> Upper(Strip(new_status)), old |-> r.old,
                error |-> r.error, details |-> r.details, ret |-> r.ret]
    /\ UNCHANGED <<clock, sessions, settings, access_token>>

\* OrdersService.set_order_status with any status string
SetOrderStatus(order_id, new_status) == SetStatus("set_order_status", order_id, new_status)

\* PATCH /admin/orders/{id}/confirm, /cancel, /deliver
ConfirmOrder(order_id) == SetStatus("set_order_status", order_id, "CONFIRMED")

CancelOrder(order_id) == SetStatus("set_order_status", order_id, "CANCELED")

DeliverOrder(order_id) == SetStatus("set_order_status", order_id, "DELIVERED")

\* POST /admin/products
CreateProduct(payload) ==
    \E r \in {IF ProductSchemaValid(payload) THEN create_product(products, payload)
              ELSE RequestValidationError(products)} :
    /\ r.error = "none" => Len(products) < MaxProducts
    /\ products' = r.products
    /\ last' = Result("create_product", r)
    /\ UNCHANGED <<orders, restored, clock, sessions, settings, access_token>>

\* PUT /admin/products/{id}
UpdateProduct(product_id, payload) ==
    \E r \in {IF ProductSchemaValid(payload) THEN update_product(products, product_id, payload)
              ELSE RequestValidationError(products)} :
    /\ products' = r.products
    /\ last' = Result("update_product", r)
    /\ UNCHANGED <<orders, restored, clock, sessions, settings, access_token>>

ProductNotFound(op, product_id) ==
    /\ last' = Err(op, "ProductNotFound", [product_id |-> product_id])
    /\ UNCHANGED <<products, orders, restored, clock, sessions, settings, access_token>>

\* PATCH /admin/products/{id}/activate
ActivateProduct(product_id) ==
    IF ~ProductExists(products, product_id) THEN ProductNotFound("activate_product", product_id)
    ELSE /\ products' = set_product_active(products, product_id, TRUE)
         /\ last' = Ok("activate_product", product_id)
         /\ UNCHANGED <<orders, restored, clock, sessions, settings, access_token>>

\* PATCH /admin/products/{id}/deactivate
DeactivateProduct(product_id) ==
    IF ~ProductExists(products, product_id) THEN ProductNotFound("deactivate_product", product_id)
    ELSE /\ products' = set_product_active(products, product_id, FALSE)
         /\ last' = Ok("deactivate_product", product_id)
         /\ UNCHANGED <<orders, restored, clock, sessions, settings, access_token>>

\* DELETE /admin/products/{id}; the clock advances past a timestamp it has issued
DeleteProduct(product_id) ==
    IF ~ProductExists(products, product_id) THEN ProductNotFound("delete_product", product_id)
    ELSE /\ products' = soft_delete_product(products, product_id, clock)
         /\ clock' = IF products' # products THEN clock + 1 ELSE clock
         /\ last' = Ok("delete_product", product_id)
         /\ UNCHANGED <<orders, restored, sessions, settings, access_token>>

\* POST /orders: the order is created and committed, then the sync is
\* attempted in the same session, which is closed without a commit; an
\* exception of the sync is logged.  The response is built from the order
\* object of the session, which a failed session may refuse to read.
PostOrder(payload, write_fault, sync_fault) ==
    \E r \in {create_order_with(products, orders, payload, write_fault)} :
    \E sync \in {try_sync_order_to_sheets(r.orders, Len(r.orders), sync_fault, clock)} :
    \E error \in (IF r.error # "none" THEN {r.error}
                  ELSE IF sync.raised = "none" THEN {"none"}
                  ELSE {"none", sync.raised}) :
    /\ r.error = "none" => Len(orders) < MaxOrders
    /\ products' = r.products
    /\ orders' = r.orders
    /\ restored' = IF r.error = "none" THEN Append(restored, 0) ELSE restored
    /\ last' = [op |-> "post_order", error |-> error,
                ret |-> IF error = "none" THEN r.ret ELSE Null,
                sheets_status |-> IF error = "none" THEN sync.orders[Len(r.orders)].sheets_status
                                  ELSE None,
                appended |-> r.error = "none" /\ sync.appended]
    /\ UNCHANGED <<clock, sessions, settings, access_token>>

\* POST /admin/orders/{id}/sheets/retry: nothing is committed
RetrySheetsSync(order_id, fault) ==
    \E r \in {retry_sheets_sync(orders, order_id, fault, clock)} :
    /\ last' = [op |-> "retry_sheets_sync", order_id |-> order_id, error |-> r.error,
                ret |-> IF r.error = "none" THEN Some(order_id) ELSE Null,
                sheets_status |-> IF r.error = "none" THEN r.returned[1].sheets_status ELSE None,
                appended |-> r.appended]
    /\ UNCHANGED <<products, orders, restored, clock, sessions, settings, access_token>>

\* scripts/order_sheets_sync_smoke_test.py: the sync followed by a commit,
\* which an exception of the sync skips
SyncScript(order_id, fault) ==
    \E r \in {try_sync_order_to_sheets(orders, order_id, fault, clock)} :
    /\ orders' = IF r.raised = "none" THEN r.orders ELSE orders
    /\ last' = [op |-> "sync_script", order_id |-> order_id, error |-> r.raised,
                ret |-> Null, sheets_status |-> None, appended |-> r.appended]
    /\ UNCHANGED <<products, restored, clock, sessions, settings, access_token>>

Next ==
    \/ \E payload \in CreateOrderPayloads : CreateOrder(payload)
    \/ \E order_id \in OrderIds, new_status \in NewStatusInputs : SetOrderStatus(order_id, new_status)
    \/ \E order_id \in OrderIds : ConfirmOrder(order_id)
    \/ \E order_id \in OrderIds : CancelOrder(order_id)
    \/ \E order_id \in OrderIds : DeliverOrder(order_id)
    \/ \E product_id \in ProductIds : ActivateProduct(product_id)
    \/ \E product_id \in ProductIds : DeactivateProduct(product_id)
    \/ \E product_id \in ProductIds : DeleteProduct(product_id)

Spec == Init /\ [][Next]_vars

\* The shop from the empty database: the administrator builds and edits the
\* catalogue, customers check out, orders are synced to the spreadsheet, and
\* the database may fail during the write phase of a checkout.
\* The sync is attempted only when the write phase has committed: one
\* fault per checkout, in the write phase or in the sync.
OrderFaults ==
    {<<w, "none">> : w \in WriteFaults} \cup {<<"none", f>> : f \in SyncFaults}

\* The product the administrator edits, activates, deactivates and deletes
\* is the first of the catalogue, which does not exist before it is created;
\* the same for the orders of the admin requests.
EditedProductIds == {1}

ShopOrderIds == 1..MaxOrders

ShopInit ==
    /\ products = <<>>
    /\ orders = <<>>
    /\ restored = <<>>
    /\ clock = 1
    /\ last = Ok("start", 0)
    /\ sessions = [s \in Sessions |-> Closed]
    /\ settings = DefaultSettings
    /\ access_token = Null

ShopNext ==
    \/ \E payload \in ProductPayloads : CreateProduct(payload)
    \/ \E product_id \in EditedProductIds, payload \in ProductPayloads : UpdateProduct(product_id, payload)
    \/ \E product_id \in EditedProductIds : DeactivateProduct(product_id)
    \/ \E product_id \in EditedProductIds : ActivateProduct(product_id)
    \/ \E product_id \in EditedProductIds : DeleteProduct(product_id)
    \/ \E payload \in ShopOrderPayloads, faults \in OrderFaults :
          PostOrder(payload, faults[1], faults[2])
    \/ \E order_id \in ShopOrderIds : ConfirmOrder(order_id)
    \/ \E order_id \in ShopOrderIds : CancelOrder(order_id)
    \/ \E order_id \in ShopOrderIds : DeliverOrder(order_id)
    \/ \E order_id \in ShopOrderIds, fault \in SyncFaults : RetrySheetsSync(order_id, fault)
    \/ \E order_id \in ShopOrderIds, fault \in SyncFaults : SyncScript(order_id, fault)

ShopSpec == ShopInit /\ [][ShopNext]_vars

\* ----------------------------------------------------- concurrent checkouts
\* Two checkouts in flight, each in its own session and transaction on a
\* store at READ COMMITTED (the engine is created with no isolation level, so
\* PostgreSQL's default applies).  create_order reads the product rows with
\* a plain SELECT, compares and subtracts in Python, and the flush writes the
\* resulting quantity with UPDATE ... SET quantity = <value>; the UPDATE
\* waits while another transaction holds an uncommitted update of the row.
ConcurrentPayloads ==
    {BasePayload(<<Item(pid, q)>>) : pid \in 1..MaxProducts, q \in 1..MaxItemQty}

\* The rows the session has written and not yet committed.
LockedRows(s) ==
    IF sessions[s].pc = "written"
    THEN {sessions[s].payload.items[i].product_id : i \in 1..Len(sessions[s].payload.items)}
    ELSE {}

\* get_active_products_by_ids: the session reads the committed rows
ReadStock(s, payload) ==
    /\ sessions[s].pc = "closed"
    /\ sessions' = [sessions EXCEPT ![s] = [pc |-> "read", payload |-> payload, rows |-> products]]
    /\ UNCHANGED <<products, orders, restored, clock, last, settings, access_token>>

\* the validation, the availability and the stock comparison on the rows read
CheckStock(s) ==
    /\ sessions[s].pc = "read"
    /\ \E r \in {create_order(sessions[s].rows, <<>>, sessions[s].payload)} :
          sessions' = [sessions EXCEPT ![s] =
                          IF r.error = "none"
                          THEN [pc |-> "checked", payload |-> @.payload, rows |-> @.rows]
                          ELSE [pc |-> "done", payload |-> @.payload, error |-> r.error]]
    /\ UNCHANGED <<products, orders, restored, clock, last, settings, access_token>>

\* the flush of repo.create_order: the UPDATEs of the stock and the INSERTs
WriteStock(s) ==
    /\ sessions[s].pc = "checked"
    /\ \A t \in Sessions \ {s} :
          LockedRows(t) \cap {sessions[s].payload.items[i].product_id :
                                i \in 1..Len(sessions[s].payload.items)} = {}
    /\ sessions' = [sessions EXCEPT ![s].pc = "written"]
    /\ UNCHANGED <<products, orders, restored, clock, last, settings, access_token>>

\* db.commit(): the quantities computed from the rows read replace the
\* committed ones, the order and its items become visible
Commit(s) ==
    /\ sessions[s].pc = "written"
    /\ \E r \in {create_order(sessions[s].rows, <<>>, sessions[s].payload)} :
          /\ products' = [pid \in DOMAIN products |->
                             IF pid \in LockedRows(s)
                             THEN [products[pid] EXCEPT !.quantity = r.products[pid].quantity]
                             ELSE products[pid]]
          /\ orders' = Append(orders, r.orders[1])
    /\ restored' = Append(restored, 0)
    /\ sessions' = [sessions EXCEPT ![s] = [pc |-> "done", payload |-> @.payload, error |-> "none"]]
    /\ UNCHANGED <<clock, last, settings, access_token>>

ConcurrentNext ==
    \/ \E s \in Sessions, payload \in ConcurrentPayloads : ReadStock(s, payload)
    \/ \E s \in Sessions : CheckStock(s)
    \/ \E s \in Sessions : WriteStock(s)
    \/ \E s \in Sessions : Commit(s)

ConcurrentSpec == Init /\ [][ConcurrentNext]_vars

\* ------------------------------------------------ concurrent status requests
\* Two status requests for the same order in flight, each in its own session
\* and transaction at READ COMMITTED.  set_order_status reads the order with
\* a plain SELECT (get_order_by_id takes no lock), decides on the status it
\* read, reads the product rows with a second plain SELECT when it cancels,
\* adds the item quantities in Python, and the flush of update_order_status
\* writes the resulting quantities and the status; the UPDATE of the order
\* row waits while another transaction holds an uncommitted update of it.
RaceOrderIds == {1}

RaceStatuses == {"CONFIRMED", "CANCELED", "DELIVERED"}

\* the checkout that stored the order the requests are about
PlacedOrder == create_order(Catalogue, <<>>, BasePayload(<<Item(1, 1)>>))

\* the same order once confirmed
ConfirmedOrder ==
    set_order_status(PlacedOrder.products, PlacedOrder.orders, <<0>>, 1, "CONFIRMED")

RaceInit ==
    /\ products = PlacedOrder.products
    /\ orders \in {PlacedOrder.orders, ConfirmedOrder.orders}
    /\ restored = <<0>>
    /\ clock = 1
    /\ last = Ok("start", 0)
    /\ sessions = [s \in Sessions |-> Closed]
    /\ settings = DefaultSettings
    /\ access_token = Null

\* get_order_by_id and the checks on the status read: the request ends
\* here on an error or on the early return for the current status
ReadStatus(s, order_id, new_status) ==
    /\ sessions[s].pc = "closed"
    /\ \E r \in {set_order_status(products, orders, restored, order_id, new_status)} :
          sessions' = [sessions EXCEPT ![s] =
                          IF r.error # "none" \/ r.old = new_status
                          THEN [pc |-> "done", order_id |-> order_id, to |-> new_status,
                                error |-> r.error]
                          ELSE [pc |-> "read", order_id |-> order_id, to |-> new_status,
                                order |-> orders[order_id]]]
    /\ UNCHANGED <<products, orders, restored, clock, last, settings, access_token>>

\* _restore_stock_for_order: the committed product rows are read and the
\* quantities of the items of the order read are added to them in memory
RestoreStock(s) ==
    /\ sessions[s].pc = "read"
    /\ sessions[s].to = "CANCELED"
    /\ sessions' = [sessions EXCEPT ![s] =
                        [pc |-> "restored", order_id |-> @.order_id, to |-> @.to, order |-> @.order,
                         rows |-> restore_stock_for_order(products, @.order.items)]]
    /\ UNCHANGED <<products, orders, restored, clock, last, settings, access_token>>

\* update_order_status: the flush sends the UPDATEs and takes the row locks
WriteStatus(s) ==
    /\ \/ sessions[s].pc = "restored"
       \/ sessions[s].pc = "read" /\ sessions[s].to # "CANCELED"
    /\ \A t \in Sessions \ {s} :
          ~(sessions[t].pc = "written" /\ sessions[t].order_id = sessions[s].order_id)
    /\ sessions' = [sessions EXCEPT ![s] =
                        [pc |-> "written", order_id |-> @.order_id, to |-> @.to, order |-> @.order,
                         rows |-> IF @.pc = "restored" THEN @.rows ELSE products]]
    /\ UNCHANGED <<products, orders, restored, clock, last, settings, access_token>>

\* db.commit(): the status written replaces the committed one, and after a
\* cancellation the quantities computed from the rows read replace the
\* committed quantities of the products of the order
CommitStatus(s) ==
    /\ sessions[s].pc = "written"
    /\ LET o   == sessions[s].order_id
           ns  == sessions[s].to
           ids == {sessions[s].order.items[i].product_id : i \in 1..Len(sessions[s].order.items)}
       IN  /\ orders' = [orders EXCEPT ![o].status = ns]
           /\ products' = [pid \in DOMAIN products |->
                              IF ns = "CANCELED" /\ pid \in ids
                              THEN [products[pid] EXCEPT !.quantity = sessions[s].rows[pid].quantity]
                              ELSE products[pid]]
           /\ restored' = IF ns = "CANCELED" THEN [restored EXCEPT ![o] = @ + 1] ELSE restored
           /\ sessions' = [sessions EXCEPT ![s] =
                               [pc |-> "done", order_id |-> o, to |-> ns, error |-> "none"]]
    /\ UNCHANGED <<clock, last, settings, access_token>>

StatusRaceNext ==
    \/ \E s \in Sessions, order_id \in RaceOrderIds, new_status \in RaceStatuses :
          ReadStatus(s, order_id, new_status)
    \/ \E s \in Sessions : RestoreStock(s)
    \/ \E s \in Sessions : WriteStatus(s)
    \/ \E s \in Sessions : CommitStatus(s)

StatusRaceSpec == RaceInit /\ [][StatusRaceNext]_vars

\* ------------------------------------------------------- stock over orders
\* Checkouts and status requests, one after the other, on the catalogue as
\* created; the administrator deactivates and deletes a product but edits
\* no quantity.  Several orders are stored.
StockItemLists ==
    { <<Item(1, 1)>>,
      <<Item(1, 1), Item(2, 1)>>,
      <<Item(1, 1), Item(1, 1)>>,
      <<Item(2, MaxItemQty)>> }

StockPayloads == {BasePayload(items) : items \in StockItemLists}

StockOrderIds == 1..MaxCheckouts

\* POST /orders as far as OrdersService.create_order, for up to
\* MaxCheckouts stored orders
Checkout(payload) ==
    \E r \in {create_order(products, orders, payload)} :
    /\ r.error = "none" => Len(orders) < MaxCheckouts
    /\ products' = r.products
    /\ orders' = r.orders
    /\ restored' = IF r.error = "none" THEN Append(restored, 0) ELSE restored
    /\ last' = [op |-> "create_order", error |-> r.error, ret |-> r.ret]
    /\ UNCHANGED <<clock, sessions, settings, access_token>>

StockNext ==
    \/ \E payload \in StockPayloads : Checkout(payload)
    \/ \E order_id \in StockOrderIds : ConfirmOrder(order_id)
    \/ \E order_id \in StockOrderIds : CancelOrder(order_id)
    \/ \E order_id \in StockOrderIds : DeliverOrder(order_id)
    \/ DeactivateProduct(1)
    \/ ActivateProduct(1)
    \/ DeleteProduct(1)

StockSpec == Init /\ [][StockNext]_vars

\* ------------------------------------------------------------- admin area
\* The admin routers run require_admin on the cookie of the request before
\* the handler; the other specifications take the requests of an admin who
\* has been let in.  Here the environment is any of the configured
\* identities, the client logs in and out, time passes, and requests come
\* with the cookie of the client or with a token made elsewhere.
ConfiguredEmails == {"admin@shop.dz", "Admin@Shop.dz"}
ConfiguredPasswords == {"pw"}
LoginEmails == {"admin@shop.dz", " Admin@Shop.dz ", "eve@shop.dz"}
LoginPasswords == {"pw", "PW"}

\* Tokens that create_access_token has not issued for this environment:
\* signed with another key, for another subject, with another type marker,
\* without subject, without type marker, at its expiry, and a string that
\* is no token.
ForgedTokens(s, now) ==
    LET claims == [sub |-> s.admin_email, iat |-> now, exp |-> now + 1, type |-> "access"] IN
    { Token(claims, "k2"),
      Token([claims EXCEPT !.sub = "eve@shop.dz"], s.jwt_secret_key),
      Token([claims EXCEPT !.type = "refresh"], s.jwt_secret_key),
      Token([iat |-> now, exp |-> now + 1, type |-> "access"], s.jwt_secret_key),
      Token([sub |-> s.admin_email, iat |-> now, exp |-> now + 1], s.jwt_secret_key),
      Token([claims EXCEPT !.exp = now], s.jwt_secret_key),
      [malformed |-> TRUE] }

\* The cookies a request can come with.
Cookies == {access_token} \cup {Some(t) : t \in ForgedTokens(settings, clock)}

AdminInit ==
    /\ products = Catalogue
    /\ orders = <<>>
    /\ restored = <<>>
    /\ clock = 1
    /\ last = Ok("start", 0)
    /\ sessions = [s \in Sessions |-> Closed]
    /\ settings \in {Settings(e, pw) : e \in ConfiguredEmails, pw \in ConfiguredPasswords}
    /\ access_token = Null

\* POST /admin/login
AdminLogin(email, password) ==
    \E r \in {admin_login(email, password, settings, clock)} :
    /\ access_token' = IF r.authenticated THEN r.set_cookie ELSE access_token
    /\ last' = [op |-> "admin_login", error |-> "none", details |-> NoDetails, ret |-> Null,
                authenticated |-> r.authenticated, set_cookie |-> r.set_cookie # Null]
    /\ UNCHANGED <<products, orders, restored, clock, sessions, settings>>

\* POST /admin/logout
AdminLogout ==
    /\ access_token' = Null
    /\ last' = Ok("admin_logout", 0)
    /\ UNCHANGED <<products, orders, restored, clock, sessions, settings>>

\* a minute passes
Tick ==
    /\ clock < MaxClock
    /\ clock' = clock + 1
    /\ UNCHANGED <<products, orders, restored, last, sessions, settings, access_token>>

\* Depends(require_admin) of the admin routers: a rejected request does not
\* reach its handler
Rejected(cookie, op) ==
    \E r \in {require_admin(cookie, settings, clock)} :
    /\ r.error # "none"
    /\ last' = Err(op, r.error, r.details)
    /\ UNCHANGED <<products, orders, restored, clock, sessions, settings, access_token>>

Admitted(cookie) == require_admin(cookie, settings, clock).error = "none"

AdminDeactivateProduct(cookie, product_id) ==
    \/ Rejected(cookie, "deactivate_product")
    \/ Admitted(cookie) /\ DeactivateProduct(product_id)

AdminActivateProduct(cookie, product_id) ==
    \/ Rejected(cookie, "activate_product")
    \/ Admitted(cookie) /\ ActivateProduct(product_id)

AdminDeleteProduct(cookie, product_id) ==
    \/ Rejected(cookie, "delete_product")
    \/ Admitted(cookie) /\ DeleteProduct(product_id)

AdminConfirmOrder(cookie, order_id) ==
    \/ Rejected(cookie, "set_order_status")
    \/ Admitted(cookie) /\ ConfirmOrder(order_id)

AdminCancelOrder(cookie, order_id) ==
    \/ Rejected(cookie, "set_order_status")
    \/ Admitted(cookie) /\ CancelOrder(order_id)

AdminNext ==
    \/ \E email \in LoginEmails, password \in LoginPasswords : AdminLogin(email, password)
    \/ AdminLogout
    \/ Tick
    \/ CreateOrder(BasePayload(<<Item(1, 1)>>))
    \/ \E cookie \in Cookies : AdminDeactivateProduct(cookie, 1)
    \/ \E cookie \in Cookies : AdminActivateProduct(cookie, 1)
    \/ \E cookie \in Cookies : AdminDeleteProduct(cookie, 1)
    \/ \E cookie \in Cookies : AdminConfirmOrder(cookie, 1)
    \/ \E cookie \in Cookies : AdminCancelOrder(cookie, 1)

AdminSpec == AdminInit /\ [][AdminNext]_vars

\* =================================================================== claims
\* The status table as the specification states it.
TableEdges ==
    { <<"PENDING", "CONFIRMED">>, <<"PENDING", "CANCELED">>,
      <<"CONFIRMED", "DELIVERED">>, <<"CONFIRMED", "CANCELED">> }

\* The step is a set_order_status request on the stored order o for status ns.
StatusRequest(o, ns) ==
    /\ last'.op = "set_order_status"
    /\ last'.order_id = o
    /\ last'.to = ns

\* The quantity of product pid on an item list.
ItemQty(items, pid) ==
    SumSeq([i \in 1..Len(items) |-> IF items[i].product_id = pid THEN items[i].quantity ELSE 0])

\* C1: every order is created PENDING, every change of an order's status is
\* one of the four edges of the table, and so a DELIVERED or CANCELED order
\* keeps its status.
C1_StatusFollowsTable ==
    [][ /\ \A o \in (DOMAIN orders') \ (DOMAIN orders) : orders'[o].status = "PENDING"
        /\ \A o \in DOMAIN orders :
              /\ o \in DOMAIN orders'
              /\ \/ orders'[o].status = orders[o].status
                 \/ <<orders[o].status, orders'[o].status>> \in TableEdges ]_vars

C1_Witness ==
    /\ last.op = "set_order_status"
    /\ last.error = "none"
    /\ last.old = "CONFIRMED"
    /\ last.to = "DELIVERED"
    /\ orders[last.order_id].status = "DELIVERED"

\* C2: a request for a status that differs from the order's status and is
\* not an edge of the table from it fails with InvalidTransition, whose
\* details give the current and the requested status, and changes neither
\* the orders nor any product.
C2_InvalidTransitionRejected ==
    [][ \A o \in DOMAIN orders, ns \in ALLOWED_ORDER_STATUSES :
          ( /\ StatusRequest(o, ns)
            /\ ns # orders[o].status
            /\ <<orders[o].status, ns>> \notin TableEdges )
          => /\ last'.error = "InvalidTransition"
             /\ last'.details = [from |-> orders[o].status, to |-> ns]
             /\ orders' = orders
             /\ products' = products ]_vars

C2_Witness ==
    /\ last.op = "set_order_status"
    /\ last.error = "InvalidTransition"
    /\ last.details = [from |-> "DELIVERED", to |-> "CANCELED"]
    /\ orders[last.order_id].status = "DELIVERED"

\* C3: a request for the status the order already has succeeds, returns the
\* order and changes no status and no product quantity; a repeated cancel
\* restores no stock.
C3_SameStatusIsNoOp ==
    [][ \A o \in DOMAIN orders :
          StatusRequest(o, orders[o].status)
          => /\ last'.error = "none"
             /\ last'.ret = Some(o)
             /\ orders' = orders
             /\ products' = products
             /\ restored' = restored ]_vars

C3_Witness ==
    /\ last.op = "set_order_status"
    /\ last.error = "none"
    /\ last.old = "CANCELED"
    /\ last.to = "CANCELED"
    /\ last.ret = Some(last.order_id)
    /\ restored[last.order_id] = 1

\* C4: deliver on a PENDING order fails with InvalidTransition; confirm on a
\* PENDING order and deliver on a CONFIRMED order succeed, the latter ending
\* in DELIVERED; on a DELIVERED or CANCELED order every request for another
\* status fails and leaves the status.
C4_DeliverNeedsConfirm ==
    [][ \A o \in DOMAIN orders :
          /\ (StatusRequest(o, "DELIVERED") /\ orders[o].status = "PENDING")
                => (last'.error = "InvalidTransition" /\ orders'[o].status = "PENDING")
          /\ (StatusRequest(o, "CONFIRMED") /\ orders[o].status = "PENDING")
                => (last'.error = "none" /\ orders'[o].status = "CONFIRMED")
          /\ (StatusRequest(o, "DELIVERED") /\ orders[o].status = "CONFIRMED")
                => (last'.error = "none" /\ orders'[o].status = "DELIVERED")
          /\ \A ns \in {"CONFIRMED", "DELIVERED", "CANCELED"} :
                ( /\ StatusRequest(o, ns)
                  /\ orders[o].status \in {"DELIVERED", "CANCELED"}
                  /\ ns # orders[o].status )
                => (last'.error # "none" /\ orders'[o].status = orders[o].status) ]_vars

C4_Witness ==
    /\ last.op = "set_order_status"
    /\ last.error = "InvalidTransition"
    /\ last.details = [from |-> "PENDING", to |-> "DELIVERED"]

\* C5: a successful change of a PENDING or CONFIRMED order to CANCELED adds,
\* for every product, the order's item quantity of that product to its
\* quantity, whatever the product's flags, changes nothing else of any
\* product, and sets the order's status to CANCELED in the same step.
C5_CancelRestoresStock ==
    [][ \A o \in DOMAIN orders :
          ( /\ StatusRequest(o, "CANCELED")
            /\ last'.error = "none"
            /\ orders[o].status \in {"PENDING", "CONFIRMED"} )
          => /\ DOMAIN products' = DOMAIN products
             /\ \A p \in DOMAIN products :
                   products'[p] =
                      [products[p] EXCEPT !.quantity = @ + ItemQty(orders[o].items, p)]
             /\ orders' = [orders EXCEPT ![o].status = "CANCELED"] ]_vars

C5_Witness ==
    /\ last.op = "set_order_status"
    /\ last.error = "none"
    /\ last.old = "CONFIRMED"
    /\ last.to = "CANCELED"
    /\ ItemQty(orders[last.order_id].items, 1) = 1
    /\ ItemQty(orders[last.order_id].items, 2) = 1
    /\ products[1].quantity = MaxStock
    /\ products[1].deleted_at # Null
    /\ products[2].quantity = 1
    /\ ~products[2].is_active

\* C6: the stock of an order is restored at most once: no order has had its
\* item quantities added back twice, and so (no request here edits a
\* quantity) no product holds more than the catalogue gave it.
C6_RestoredAtMostOnce ==
    /\ \A o \in DOMAIN orders : restored[o] <= 1
    /\ \A p \in DOMAIN products : products[p].quantity <= Catalogue[p].quantity

C6_Witness ==
    /\ last.op = "set_order_status"
    /\ last.error = "InvalidTransition"
    /\ last.details = [from |-> "CANCELED", to |-> "CONFIRMED"]
    /\ restored[last.order_id] = 1

\* The purchasable products, the requested products and the validity of a
\* payload as the specification states them.
Purchasable(pid) ==
    /\ pid \in DOMAIN products
    /\ products[pid].is_active
    /\ products[pid].deleted_at = Null

RequestedIds(payload) == {payload.items[i].product_id : i \in 1..Len(payload.items)}

Shortfalls(payload) ==
    {pid \in RequestedIds(payload) \cap DOMAIN products :
        ItemQty(payload.items, pid) > products[pid].quantity}

Unavailable(payload) == {pid \in RequestedIds(payload) : ~Purchasable(pid)}

ValidPayload(payload) ==
    /\ Len(payload.items) > 0
    /\ payload.delivery_fee >= 0
    /\ Upper(Strip(payload.delivery_mode)) \in {"HOME", "STOP_DESK"}
    /\ \A f \in {payload.first_name, payload.last_name, payload.phone_number,
                 payload.wilaya, payload.baladiya} : Strip(f) # ""
    /\ \A i \in 1..Len(payload.items) :
          payload.items[i].product_id > 0 /\ payload.items[i].quantity > 0

\* The request leaves the orders (and their items) and the products alone.
Untouched(r) == r.products = products /\ r.orders = orders /\ r.ret = Null

\* C7: from any state, a payload with items [(A,m),(A,n)] has the result of
\* the payload with the one item (A,m+n): the same error or the same order
\* (one item of quantity m+n, the same totals) and the same stock; the stock
\* check is made against m+n.
C7_DuplicatesAreSummed ==
    \A pid \in ProductIds, m \in 1..MaxItemQty, n \in 1..MaxItemQty :
        LET dup == create_order(products, orders, BasePayload(<<Item(pid, m), Item(pid, n)>>))
            one == create_order(products, orders, BasePayload(<<Item(pid, m + n)>>))
        IN  /\ dup = one
            /\ Purchasable(pid) =>
                  /\ dup.error = "InsufficientStock" <=> m + n > products[pid].quantity
                  /\ dup.error = "none" <=> m + n <= products[pid].quantity
            /\ dup.error = "none" =>
                  LET order == dup.orders[dup.ret[1]] IN
                  /\ Len(order.items) = 1
                  /\ order.items[1].product_id = pid
                  /\ order.items[1].quantity = m + n
                  /\ order.items_subtotal = products[pid].price * (m + n)
                  /\ dup.products[pid].quantity = products[pid].quantity - (m + n)

C7_Witness ==
    /\ last.op = "create_order"
    /\ last.error = "none"
    /\ last.n_items = 2
    /\ Len(orders[last.ret[1]].items) = 1
    /\ orders[last.ret[1]].items[1].quantity = 2
    /\ products[orders[last.ret[1]].items[1].product_id].quantity = MaxStock - 2

\* C8 as stated: whenever the merged quantity requested of some product
\* exceeds its stock, create_order fails with InsufficientStock and changes
\* nothing (stated here for the payloads that pass the validation).
C8_AsStated ==
    [][ \A payload \in CreateOrderPayloads :
          (ValidPayload(payload) /\ Shortfalls(payload) # {} /\ CreateOrder(payload))
          => /\ last'.error = "InsufficientStock"
             /\ products' = products
             /\ orders' = orders ]_vars

\* C8: whenever the merged quantity requested of some product exceeds its
\* stock, create_order fails and creates no order and no item and changes no
\* product; the error is InsufficientStock when the payload is valid and every
\* requested product is purchasable (InvalidOrderPayload or
\* ProductUnavailable come first otherwise).  After such a failure the
\* products still hold the quantities the error reports as available.
C8_ShortfallFailsWholeOrder ==
    /\ \A payload \in CreateOrderPayloads :
          Shortfalls(payload) # {} =>
              LET r == create_order(products, orders, payload) IN
              /\ r.error \in {"InvalidOrderPayload", "ProductUnavailable", "InsufficientStock"}
              /\ Untouched(r)
              /\ (ValidPayload(payload) /\ Unavailable(payload) = {}) => r.error = "InsufficientStock"
    /\ (last.op = "create_order" /\ last.error = "InsufficientStock") =>
          /\ last.ret = Null
          /\ \A i \in 1..Len(last.details.items) :
                products[last.details.items[i].product_id].quantity = last.details.items[i].available

C8_Witness ==
    /\ last.op = "create_order"
    /\ last.error = "InsufficientStock"
    /\ last.n_items = 2
    /\ Len(last.details.items) = 1
    /\ last.details.items[1].product_id = 2
    /\ products[1].quantity = MaxStock
    /\ orders = <<>>

\* C9: the InsufficientStock error lists exactly the requested products whose
\* merged quantity exceeds the stock, each once, with its product_id, the
\* merged quantity requested and the quantity available.
C9_ListsEveryShortfall ==
    \A payload \in CreateOrderPayloads :
        LET r == create_order(products, orders, payload) IN
        r.error = "InsufficientStock" =>
            /\ SeqToSet(r.details.items) =
                  { [product_id |-> pid, requested |-> ItemQty(payload.items, pid),
                     available |-> products[pid].quantity] : pid \in Shortfalls(payload) }
            /\ Len(r.details.items) = Cardinality(Shortfalls(payload))
            /\ Shortfalls(payload) # {}

C9_Witness ==
    /\ last.op = "create_order"
    /\ last.error = "InsufficientStock"
    /\ Len(last.details.items) = 2
    /\ last.details.items[1].product_id # last.details.items[2].product_id

\* C10: whenever a requested product_id does not exist, is inactive or is
\* soft-deleted, create_order fails and changes nothing; the error of a
\* payload that passes the validation is ProductUnavailable, also when a stock
\* is short, and lists every such id once (a payload that fails the
\* validation is rejected with InvalidOrderPayload before any product is
\* looked up).  So the items of a created order are all purchasable products.
C10_UnavailableProductFailsOrder ==
    \A payload \in CreateOrderPayloads :
        LET r == create_order(products, orders, payload) IN
        /\ Unavailable(payload) # {} =>
              /\ r.error \in {"InvalidOrderPayload", "ProductUnavailable"}
              /\ Untouched(r)
              /\ ValidPayload(payload) =>
                    /\ r.error = "ProductUnavailable"
                    /\ SeqToSet(r.details.missing_product_ids) = Unavailable(payload)
                    /\ Len(r.details.missing_product_ids) = Cardinality(Unavailable(payload))
        /\ r.error = "none" => \A pid \in RequestedIds(payload) : Purchasable(pid)

C10_Witness ==
    /\ last.op = "create_order"
    /\ last.error = "ProductUnavailable"
    /\ SeqToSet(last.details.missing_product_ids) = {1, 2}
    /\ products[1].deleted_at # Null
    /\ products[1].is_active
    /\ ~products[2].is_active
    /\ products[2].deleted_at = Null

\* The sum of the line totals of the first n items.
RECURSIVE LineTotals(_, _)
LineTotals(items, n) == IF n = 0 THEN 0 ELSE items[n].line_total + LineTotals(items, n - 1)

\* C11: in every state every stored order has total_amount = items_subtotal
\* + delivery_fee and items_subtotal = the sum of the line totals of its
\* items, whatever status transitions, sync results and product edits
\* followed its creation.
C11_TotalsAddUp ==
    \A o \in DOMAIN orders :
        /\ orders[o].total_amount = orders[o].items_subtotal + orders[o].delivery_fee
        /\ orders[o].items_subtotal = LineTotals(orders[o].items, Len(orders[o].items))

C11_Witness ==
    /\ Len(orders) = 1
    /\ orders[1].status = "CONFIRMED"
    /\ orders[1].sheets_status = "FAILED"
    /\ orders[1].items[1].product_id = 1
    /\ products[1].price # orders[1].items[1].unit_price
    /\ orders[1].total_amount = PriceLo * ExampleQty + Fee

\* C12: a successful create_order lowers the quantity of each requested
\* product by its merged requested quantity and changes nothing else of any
\* product; the items of the stored order carry the price the product has
\* at that moment as unit_price; a request for exactly the whole stock
\* succeeds.  The example: price 1000, quantity 5, five units ordered with
\* delivery_fee 300 give total_amount 5300 and leave quantity 0.
C12_SuccessfulOrderDecrementsStock ==
    /\ \A payload \in ShopOrderPayloads, fault \in WriteFaults :
          LET r == create_order_with(products, orders, payload, fault) IN
          /\ r.error = "none" =>
                LET order == r.orders[r.ret[1]] IN
                /\ DOMAIN r.products = DOMAIN products
                /\ \A pid \in DOMAIN products :
                      r.products[pid] = [products[pid] EXCEPT
                                           !.quantity = @ - ItemQty(payload.items, pid)]
                /\ \A i \in 1..Len(order.items) :
                      /\ order.items[i].unit_price = products[order.items[i].product_id].price
                      /\ order.items[i].quantity = ItemQty(payload.items, order.items[i].product_id)
                /\ {order.items[i].product_id : i \in 1..Len(order.items)} = RequestedIds(payload)
          /\ ( /\ fault = "none"
               /\ \A pid \in RequestedIds(payload) :
                     Purchasable(pid) /\ ItemQty(payload.items, pid) = products[pid].quantity )
             => /\ r.error = "none"
                /\ \A pid \in RequestedIds(payload) : r.products[pid].quantity = 0
    /\ LET shelf == create_product(<<>>, ProductPayload("p-1", 1000, 5, TRUE)).products
           r     == create_order(shelf, <<>>, [BasePayload(<<Item(1, 5)>>) EXCEPT !.delivery_fee = 300])
       IN  /\ r.error = "none"
           /\ r.orders[1].total_amount = 5300
           /\ r.products[1].quantity = 0

C12_Witness ==
    /\ last.op = "post_order"
    /\ last.error = "none"
    /\ Len(orders[1].items) = 1
    /\ orders[1].items[1].unit_price = PriceLo
    /\ orders[1].items[1].quantity = ExampleQty
    /\ orders[1].delivery_fee = Fee
    /\ orders[1].total_amount = PriceLo * ExampleQty + Fee
    /\ products[1].slug = "p-1"
    /\ products[1].quantity = 0

\* C13: when a step of the write phase of create_order fails (a stock
\* update, the order insert, an item insert or the commit) the error is
\* raised again and nothing of the request is stored: every product keeps
\* its quantity and no order and no item is added.  So every stored order
\* has all its items, and a request that fails before the write phase fails
\* the same way whatever the database would have done.
C13_WriteFailureRollsBack ==
    /\ \A payload \in ShopOrderPayloads, fault \in WriteFaults \ {"none"} :
          LET r  == create_order_with(products, orders, payload, fault)
              ok == create_order(products, orders, payload)
          IN  IF ok.error = "none"
              THEN /\ r.error = "DatabaseError"
                   /\ r.ret = Null
                   /\ r.products = products
                   /\ r.orders = orders
              ELSE r = ok
    /\ \A o \in DOMAIN orders :
          /\ Len(orders[o].items) >= 1
          /\ orders[o].items_subtotal = LineTotals(orders[o].items, Len(orders[o].items))
    /\ (last.op = "post_order" /\ last.error = "DatabaseError" /\ ~last.appended)
          => last.ret = Null

C13_Witness ==
    /\ last.op = "post_order"
    /\ last.error = "DatabaseError"
    /\ ~last.appended
    /\ orders = <<>>
    /\ Len(products) = 2
    /\ products[1].quantity = ExampleQty
    /\ products[2].quantity = 1

\* The units of product pid on the stored orders that are not canceled.
RECURSIVE UnitsSold(_, _)
UnitsSold(pid, n) ==
    IF n = 0 THEN 0
    ELSE UnitsSold(pid, n - 1) +
         (IF orders[n].status = "CANCELED" THEN 0 ELSE ItemQty(orders[n].items, pid))

\* C14 as stated: when two concurrent create_order requests each ask for one
\* unit of the same product whose quantity is 1, then under every
\* interleaving exactly one succeeds and the other fails with
\* InsufficientStock, and the product is never sold more times than its
\* stock.
C14_AsStated ==
    /\ \A pid \in DOMAIN Catalogue :
          ( /\ Catalogue[pid].quantity = 1
            /\ \A s \in Sessions :
                  /\ sessions[s].pc = "done"
                  /\ sessions[s].payload.items = <<Item(pid, 1)>> )
          => \E s \in Sessions :
                /\ sessions[s].error = "none"
                /\ \A t \in Sessions \ {s} : sessions[t].error = "InsufficientStock"
    /\ \A pid \in DOMAIN Catalogue : UnitsSold(pid, Len(orders)) <= Catalogue[pid].quantity

\* C15: in every reachable state, after any sequence of product creations
\* and updates, order creations and order status transitions, every
\* product's quantity is non-negative.
C15_QuantityNonNegative ==
    \A pid \in DOMAIN products : products[pid].quantity >= 0

\* An order has taken the last unit of a product and has been confirmed,
\* and a product payload with a negative quantity has just been refused.
C15_Witness ==
    /\ Len(orders) = 1
    /\ orders[1].status = "CONFIRMED"
    /\ \E pid \in DOMAIN products :
          /\ products[pid].quantity = 0
          /\ ItemQty(orders[1].items, pid) >= 1
    /\ last.error = "RequestValidationError"

\* C16: an order item's product_slug, product_name, unit_price, quantity and
\* line_total are fixed at order creation: no later operation (product
\* update, activate, deactivate, soft delete, order status transition,
\* sheets sync) changes them.  Every step of the shop keeps the items of
\* every stored order; in a session a sync attempt or a retry leaves them
\* as they are too.
C16_SyncKeepsItems ==
    \A o \in DOMAIN orders, fault \in SyncFaults :
        LET sync  == try_sync_order_to_sheets(orders, o, fault, clock)
            retry == retry_sheets_sync(orders, o, fault, clock)
        IN  /\ sync.orders[o].items = orders[o].items
            /\ retry.error = "none" => retry.returned[1].items = orders[o].items

C16_StepKeepsItems ==
    \A o \in DOMAIN orders :
        /\ o \in DOMAIN orders'
        /\ orders'[o].items = orders[o].items

C16_ItemSnapshotsFixed == []C16_SyncKeepsItems /\ [][C16_StepKeepsItems]_vars

\* The order was placed for product 1 as "p-1" at the low price; since
\* then the product has been renamed, re-priced, deactivated and deleted,
\* the order delivered and its sync stored: the item is as it was created.
C16_Witness ==
    /\ Len(orders) = 1
    /\ orders[1].status = "DELIVERED"
    /\ orders[1].sheets_status = "SUCCESS"
    /\ Len(orders[1].items) = 1
    /\ orders[1].items[1].product_id = 1
    /\ orders[1].items[1].product_slug = "p-1"
    /\ orders[1].items[1].unit_price = PriceLo
    /\ orders[1].items[1].line_total = PriceLo * orders[1].items[1].quantity
    /\ products[1].slug = "p-2"
    /\ products[1].name = "Cup"
    /\ products[1].price = PriceHi
    /\ ~products[1].is_active
    /\ products[1].deleted_at # Null

\* C17 as stated: try_sync_order_to_sheets never raises to its caller: for
\* every stored order and whichever step fails (loading the order,
\* constructing the sheets client, building the row, appending the row,
\* writing the sync result) the failure is caught and turned into a FAILED
\* status write.
C17_AsStated ==
    \A o \in DOMAIN orders, fault \in SyncFaults :
        LET r == try_sync_order_to_sheets(orders, o, fault, clock)
        IN  /\ r.raised = "none"
            /\ fault # "none" => r.orders[o].sheets_status = "FAILED"

\* C18: retry_sheets_sync on an existing order never fails because the
\* spreadsheet integration failed: it returns the order, whose sheets_status
\* reflects the attempt just made (SUCCESS or FAILED), and it leaves the
\* order's status, items and totals and all product quantities unchanged;
\* for a non-existing order it fails with OrderNotFound without attempting
\* a sync.
C18_RetryReturnsOrder ==
    \A o \in ShopOrderIds, fault \in SheetsFaults \cup {"none"} :
        LET r == retry_sheets_sync(orders, o, fault, clock)
        IN  IF o \in DOMAIN orders
            THEN /\ r.error = "none"
                 /\ r.returned[1].sheets_status = (IF fault = "none" THEN "SUCCESS" ELSE "FAILED")
                 /\ r.appended = (fault = "none")
                 /\ r.returned[1].status = orders[o].status
                 /\ r.returned[1].items = orders[o].items
                 /\ r.returned[1].items_subtotal = orders[o].items_subtotal
                 /\ r.returned[1].delivery_fee = orders[o].delivery_fee
                 /\ r.returned[1].total_amount = orders[o].total_amount
            ELSE /\ r.error = "OrderNotFound"
                 /\ r.returned = Null
                 /\ ~r.appended

C18_RetryStepFrame ==
    last'.op = "retry_sheets_sync" =>
        /\ products' = products
        /\ \A o \in DOMAIN orders :
              /\ o \in DOMAIN orders'
              /\ orders'[o].status = orders[o].status
              /\ orders'[o].items = orders[o].items
              /\ orders'[o].total_amount = orders[o].total_amount
        /\ last'.order_id \notin DOMAIN orders =>
              (last'.error = "OrderNotFound" /\ ~last'.appended)

C18_RetryAbsorbsSheetsFailure == []C18_RetryReturnsOrder /\ [][C18_RetryStepFrame]_vars

\* A retry on a confirmed order whose append failed has just returned the
\* order with FAILED; the order is still confirmed and the stock of its
\* product still decremented.
C18_Witness ==
    /\ last.op = "retry_sheets_sync"
    /\ last.error = "none"
    /\ last.sheets_status = "FAILED"
    /\ ~last.appended
    /\ Len(orders) = 1
    /\ orders[1].status = "CONFIRMED"
    /\ orders[1].items[1].product_id = 1
    /\ products[1].quantity = 0

\* C19: a sync attempt on an existing order sets sheets_status to SUCCESS
\* (sheets_synced_at set, sheets_error cleared) exactly when the row append
\* succeeded, and to FAILED (sheets_synced_at cleared, a sheets_error of at
\* most 500 characters) when it failed; in every reachable state
\* sheets_status is one of PENDING, SUCCESS, FAILED, sheets_error is set
\* only when it is FAILED and sheets_synced_at only when it is SUCCESS.
\* The attempts are those whose database statements go through.
C19_SyncResultRecorded ==
    /\ \A o \in DOMAIN orders, fault \in SheetsFaults \cup {"none"} :
          LET r == try_sync_order_to_sheets(orders, o, fault, clock)
              u == r.orders[o]
          IN  /\ r.raised = "none"
              /\ (u.sheets_status = "SUCCESS") <=> r.appended
              /\ r.appended =>
                    /\ u.sheets_synced_at = Some(clock)
                    /\ u.sheets_error = None
              /\ ~r.appended =>
                    /\ u.sheets_status = "FAILED"
                    /\ u.sheets_synced_at = Null
                    /\ u.sheets_error # None
                    /\ StrLen(u.sheets_error) \in 1..500
    /\ \A o \in DOMAIN orders :
          /\ orders[o].sheets_status \in {"PENDING", "SUCCESS", "FAILED"}
          /\ orders[o].sheets_error # None => orders[o].sheets_status = "FAILED"
          /\ orders[o].sheets_synced_at # Null => orders[o].sheets_status = "SUCCESS"
          /\ orders[o].sheets_status = "FAILED" => StrLen(orders[o].sheets_error) \in 1..500

\* The script has stored a failed append whose message of 600 characters
\* was cut to 500.
C19_Witness ==
    /\ last.op = "sync_script"
    /\ last.error = "none"
    /\ ~last.appended
    /\ Len(orders) = 1
    /\ orders[1].sheets_status = "FAILED"
    /\ orders[1].sheets_synced_at = Null
    /\ orders[1].sheets_error = "HttpError 500 characters"
    /\ StrLen(ErrorMessage("append")) > 500

\* C20: the public create-order request succeeds and its order, order items
\* and stock decrements stay committed whatever the outcome of the
\* spreadsheet sync that follows: a sheets failure neither fails the request
\* nor rolls back or alters the order's status, items, totals or the
\* decremented product quantities.
\* For every checkout that create_order accepts, the sync that follows
\* returns normally on every spreadsheet outcome and the session's order
\* keeps status, items and totals; a request that has added an order has
\* committed exactly the order and the decrements of its items, and fails,
\* if at all, with an error of the database.
C20_SyncKeepsOrder ==
    \A payload \in ShopOrderPayloads, fault \in SheetsFaults \cup {"none"} :
        LET c == create_order(products, orders, payload)
            n == Len(c.orders)
            sync == try_sync_order_to_sheets(c.orders, n, fault, clock)
        IN  c.error = "none" =>
               /\ sync.raised = "none"
               /\ sync.orders[n].status = c.orders[n].status
               /\ sync.orders[n].items = c.orders[n].items
               /\ sync.orders[n].items_subtotal = c.orders[n].items_subtotal
               /\ sync.orders[n].delivery_fee = c.orders[n].delivery_fee
               /\ sync.orders[n].total_amount = c.orders[n].total_amount
               /\ SubSeq(sync.orders, 1, n - 1) = orders

C20_RequestCommits ==
    /\ (last'.op = "post_order" /\ Len(orders') = Len(orders) + 1) =>
         LET n == Len(orders') IN
         /\ SubSeq(orders', 1, n - 1) = orders
         /\ orders'[n].status = "PENDING"
         /\ Len(orders'[n].items) >= 1
         /\ orders'[n].total_amount =
               LineTotals(orders'[n].items, Len(orders'[n].items)) + orders'[n].delivery_fee
         /\ DOMAIN products' = DOMAIN products
         /\ \A pid \in DOMAIN products :
               products'[pid] = [products[pid] EXCEPT
                                    !.quantity = @ - ItemQty(orders'[n].items, pid)]
         /\ last'.error \in {"none", "DatabaseError", "PendingRollbackError"}
         /\ last'.sheets_status = "FAILED" => (last'.error = "none" /\ ~last'.appended)
    /\ (last'.op = "post_order" /\ Len(orders') = Len(orders)) =>
         /\ last'.error # "none"
         /\ ~last'.appended
         /\ products' = products
         /\ orders' = orders

C20_SheetsFailureHarmless == []C20_SyncKeepsOrder /\ [][C20_RequestCommits]_vars

\* A checkout for the whole stock of product 1 has just succeeded although
\* the append to the spreadsheet failed: the order is stored and the stock
\* is at 0.
C20_Witness ==
    /\ last.op = "post_order"
    /\ last.error = "none"
    /\ last.ret = Some(1)
    /\ last.sheets_status = "FAILED"
    /\ ~last.appended
    /\ Len(orders) = 1
    /\ orders[1].status = "PENDING"
    /\ orders[1].items[1].product_id = 1
    /\ orders[1].items[1].quantity = ExampleQty
    /\ orders[1].total_amount = PriceLo * ExampleQty + Fee
    /\ products[1].quantity = 0

C22_SlugConflict ==
    /\ \A payload \in {q \in ProductPayloads : ProductSchemaValid(q)} :
          LET slug == Strip(payload.slug)
              c    == create_product(products, payload)
          IN  /\ IF \E other \in DOMAIN products : products[other].slug = slug
                 THEN c.error = "ProductSlugConflict" /\ c.products = products /\ c.ret = Null
                 ELSE /\ c.error = "none"
                      /\ c.products[Len(products) + 1].slug = slug
                      /\ SubSeq(c.products, 1, Len(products)) = products
              /\ \A pid \in DOMAIN products :
                    LET u == update_product(products, pid, payload)
                    IN  IF \E other \in DOMAIN products \ {pid} : products[other].slug = slug
                        THEN u.error = "ProductSlugConflict" /\ u.products = products /\ u.ret = Null
                        ELSE /\ u.error = "none"
                             /\ u.products[pid].slug = slug
                             /\ \A other \in DOMAIN products \ {pid} :
                                   u.products[other] = products[other]
    /\ \A a \in DOMAIN products, b \in DOMAIN products :
          a # b => products[a].slug # products[b].slug

\* A create with the slug of the soft-deleted product 1 has just been
\* refused, and an update of product 1 that keeps its slug would succeed.
C22_Witness ==
    /\ last.op = "create_product"
    /\ last.error = "ProductSlugConflict"
    /\ Len(products) = 2
    /\ products[1].deleted_at # Null
    /\ last.details.slug = products[1].slug
    /\ products[1].slug = "p-2"
    /\ \E payload \in ProductPayloads :
          /\ payload.slug = " p-2 "
          /\ update_product(products, 1, payload).error = "none"
          /\ update_product(products, 2, payload).error = "ProductSlugConflict"

\* C23: activate, deactivate and soft-delete of an existing product are
\* idempotent: applying the operation twice succeeds both times and leaves
\* the same state as applying it once; in particular a second soft-delete
\* does not error and does not change deleted_at, and none of the three
\* changes the product's quantity, price or slug.
C23_TwiceIsOnce ==
    \A pid \in DOMAIN products :
        LET KeepsRest(after) ==
                /\ DOMAIN after = DOMAIN products
                /\ \A other \in DOMAIN products \ {pid} : after[other] = products[other]
                /\ after[pid].quantity = products[pid].quantity
                /\ after[pid].price = products[pid].price
                /\ after[pid].slug = products[pid].slug
                /\ after[pid].name = products[pid].name
            deleted == soft_delete_product(products, pid, clock)
        IN  /\ \A is_active \in BOOLEAN :
                  LET once == set_product_active(products, pid, is_active)
                  IN  /\ set_product_active(once, pid, is_active) = once
                      /\ once[pid].is_active = is_active
                      /\ once[pid].deleted_at = products[pid].deleted_at
                      /\ KeepsRest(once)
            /\ soft_delete_product(deleted, pid, clock + 1) = deleted
            /\ deleted[pid].deleted_at # Null
            /\ products[pid].deleted_at # Null => deleted = products
            /\ deleted[pid].is_active = products[pid].is_active
            /\ KeepsRest(deleted)

\* the three requests on an existing product succeed, and a request that
\* repeats the one before it changes nothing
C23_RepeatedRequest ==
    LET ops == {"activate_product", "deactivate_product", "delete_product"} IN
    /\ (last'.op \in ops /\ last'.error # "none") =>
          /\ last'.error = "ProductNotFound"
          /\ last'.details.product_id \notin DOMAIN products
          /\ products' = products
    /\ (last'.op \in ops /\ last = last' /\ last.error = "none") =>
          /\ products' = products
          /\ clock' = clock

C23_Idempotent == []C23_TwiceIsOnce /\ [][C23_RepeatedRequest]_vars

\* Product 1 has been deactivated and then soft-deleted, after an order
\* took units of it: a further delete or deactivate finds nothing to change.
C23_Witness ==
    /\ last = Ok("delete_product", 1)
    /\ products[1].deleted_at # Null
    /\ ~products[1].is_active
    /\ products[1].deleted_at[1] < clock
    /\ soft_delete_product(products, 1, clock) = products
    /\ set_product_active(products, 1, FALSE) = products
    /\ Len(orders) = 1
    /\ products[1].quantity = 0

\* Payloads that break one rule of the validation each, with the field the
\* rule is about; the items name a product that does not exist and ask for
\* more than any stock, except where the items are the rule broken.
C24_Violations ==
    LET base == BasePayload(SampleItems) IN
    { <<BasePayload(<<>>), "items">>,
      <<[base EXCEPT !.delivery_fee = -1], "delivery_fee">>,
      <<[base EXCEPT !.delivery_mode = "AIR"], "delivery_mode">>,
      <<[base EXCEPT !.delivery_mode = " "], "delivery_mode">>,
      <<[base EXCEPT !.first_name = " "], "first_name">>,
      <<[base EXCEPT !.first_name = ""], "first_name">>,
      <<[base EXCEPT !.last_name = " "], "last_name">>,
      <<[base EXCEPT !.last_name = ""], "last_name">>,
      <<[base EXCEPT !.phone_number = " "], "phone_number">>,
      <<[base EXCEPT !.phone_number = ""], "phone_number">>,
      <<[base EXCEPT !.wilaya = " "], "wilaya">>,
      <<[base EXCEPT !.wilaya = ""], "wilaya">>,
      <<[base EXCEPT !.baladiya = " "], "baladiya">>,
      <<[base EXCEPT !.baladiya = ""], "baladiya">>,
      <<BasePayload(<<Item(1, 1), Item(0, 1)>>), "product_id">>,
      <<BasePayload(<<Item(-1, 1)>>), "product_id">>,
      <<BasePayload(<<Item(MaxProducts + 1, MaxStock + 1), Item(1, 0)>>), "quantity">>,
      <<BasePayload(<<Item(1, -1)>>), "quantity">>,
      <<[BasePayload(<<>>) EXCEPT !.delivery_fee = -1, !.delivery_mode = "AIR"], "items">>,
      <<[base EXCEPT !.delivery_mode = "AIR", !.baladiya = " "], "delivery_mode">> }

\* Delivery modes that are accepted after trimming and upper-casing.
C24_AcceptedModes == {"HOME", "STOP_DESK", " home ", "stop_desk"}

\* C24: create_order rejects with InvalidPayload, naming the offending
\* field, any payload with an empty item list, a negative delivery_fee, a
\* delivery_mode other than HOME or STOP_DESK (compared after trimming and
\* upper-casing), a blank first_name, last_name, phone_number, wilaya or
\* baladiya, or an item with product_id <= 0 or quantity <= 0; the
\* rejection happens before any product is read and leaves orders and
\* product quantities unchanged.
C24_InvalidPayloadRejected ==
    /\ \A v \in C24_Violations :
          LET r == create_order(products, orders, v[1])
          IN  /\ r.error = "InvalidOrderPayload"
              /\ r.details = [field |-> v[2]]
              /\ r.ret = Null
              /\ r.products = products
              /\ r.orders = orders
              /\ create_order(<<>>, orders, v[1]).details = r.details
    /\ \A mode \in C24_AcceptedModes :
          create_order(products, orders,
                       [BasePayload(<<Item(1, 1)>>) EXCEPT !.delivery_mode = mode]).error
              # "InvalidOrderPayload"
    /\ (last.op = "create_order" /\ last.error = "InvalidOrderPayload") => last.ret = Null

\* After an order took stock, a checkout with a last name of blanks, for
\* a product that does not exist, has just been rejected for the name.
C24_Witness ==
    /\ last.op = "create_order"
    /\ last.error = "InvalidOrderPayload"
    /\ last.details = [field |-> "last_name"]
    /\ Len(orders) = 1
    /\ \E pid \in DOMAIN products : products[pid].quantity < Catalogue[pid].quantity

\* the outcomes of require_admin on the cookies a request can bring
C25_RequireAdminFailsClosed ==
    LET key    == settings.jwt_secret_key
        claims == [sub |-> settings.admin_email, iat |-> clock, exp |-> clock + 1, type |-> "access"]
        outcome(token) == require_admin(Some(token), settings, clock)
    IN  /\ require_admin(Null, settings, clock).error = "auth_required"
        /\ outcome(Token(claims, key)).error = "none"
        /\ outcome(Token([claims EXCEPT !.exp = clock], key)) = AuthError([reason |-> "expired"])
        /\ outcome(Token([claims EXCEPT !.exp = clock - 1], key)) = AuthError([reason |-> "expired"])
        /\ outcome(Token(claims, "k2")) = AuthError([reason |-> "invalid"])
        /\ outcome([malformed |-> TRUE]) = AuthError([reason |-> "invalid"])
        /\ outcome(Token([claims EXCEPT !.type = "refresh"], key)) = AuthError([type |-> "refresh"])
        /\ outcome(Token([sub |-> settings.admin_email, iat |-> clock, exp |-> clock + 1], key))
              = AuthError([type |-> None])
        /\ outcome(Token([iat |-> clock, exp |-> clock + 1, type |-> "access"], key))
              = AuthError([missing |-> "sub"])
        /\ outcome(Token([claims EXCEPT !.sub = "eve@shop.dz"], key)).error = "not_admin"
        /\ outcome(Token([claims EXCEPT !.sub = "eve@shop.dz"], key)).error
              # require_admin(Null, settings, clock).error
        /\ \A cookie \in Cookies :
              LET r == require_admin(cookie, settings, clock)
              IN  /\ r.error \in {"none", "auth_required", "auth_error", "not_admin"}
                  /\ r.error = "none" =>
                        /\ cookie # Null
                        /\ cookie[1].key = key
                        /\ cookie[1].payload.exp > clock
                        /\ cookie[1].payload.type = "access"
                        /\ cookie[1].payload.sub = settings.admin_email
                        /\ r.payload = Some(cookie[1].payload)

\* a rejected admin request leaves the database as it was
C25_RejectedChangesNothing ==
    last'.error \in {"auth_required", "auth_error", "not_admin"} =>
        /\ products' = products
        /\ orders' = orders
        /\ restored' = restored
        /\ last'.ret = Null

\* C25: admin access fails closed: a request with no token cookie is
\* rejected as not-authenticated; a token that is expired, has a bad
\* signature, a type marker other than 'access' or no subject is rejected;
\* a valid token whose subject is not the configured admin email is
\* rejected as not-authorized, a different outcome from not-authenticated.
\* No admin order or product operation changes state for a rejected
\* request.
C25_AdminFailsClosed == []C25_RequireAdminFailsClosed /\ [][C25_RejectedChangesNothing]_vars

\* The client logged in, its cookie has expired, an order is waiting: a
\* cancel request that came with a token for another subject has just been
\* rejected as not authorized, and the order is still pending.
C25_Witness ==
    /\ last = Err("set_order_status", "not_admin", NoDetails)
    /\ Len(orders) = 1
    /\ orders[1].status = "PENDING"
    /\ access_token # Null
    /\ require_admin(access_token, settings, clock) = AuthError([reason |-> "expired"])
    /\ require_admin(Null, settings, clock).error = "auth_required"

\* C30 as stated: for every configured admin email and password, a login
\* with credentials that the login endpoint accepts yields a token that
\* require_admin accepts as the admin until it expires; a login with any
\* other credentials sets no cookie.  The cookie of the client is the one
\* the last accepted login has set.
C30_AsStated ==
    /\ (access_token # Null /\ clock < access_token[1].payload.exp) =>
          /\ require_admin(access_token, settings, clock).error = "none"
          /\ require_admin(access_token, settings, clock).payload[1].sub = settings.admin_email
    /\ (last.op = "admin_login" /\ last.authenticated) => access_token # Null
    /\ (last.op = "admin_login" /\ ~last.authenticated) => ~last.set_cookie

\* C26: in every reachable state every stored order has at least one item
\* and at most one item per product_id, and every order item has
\* quantity >= 1 and line_total = unit_price * quantity.
C26_OrderItemsWellFormed ==
    \A o \in DOMAIN orders :
        LET items == orders[o].items IN
        /\ Len(items) >= 1
        /\ \A i \in 1..Len(items), j \in 1..Len(items) :
              items[i].product_id = items[j].product_id => i = j
        /\ \A i \in 1..Len(items) :
              /\ items[i].quantity >= 1
              /\ items[i].line_total = items[i].unit_price * items[i].quantity

\* The order placed with product 1 named twice holds one item of two
\* units, and has since been canceled.
C26_Witness ==
    /\ Len(orders) = 1
    /\ orders[1].status = "CANCELED"
    /\ Len(orders[1].items) = 1
    /\ orders[1].items[1].product_id = 1
    /\ orders[1].items[1].quantity = 2
    /\ orders[1].items[1].line_total = 2 * orders[1].items[1].unit_price
    /\ orders[1].items[1].unit_price > 0

\* C27: stock conservation: over any sequence of non-overlapping
\* create_order and set_order_status requests with no admin edit of
\* quantities, for every product the current quantity plus the sum of the
\* item quantities for that product over all orders that are not CANCELED
\* equals the product's initial quantity; failed requests leave this sum
\* untouched.
C27_StockConserved ==
    /\ DOMAIN products = DOMAIN Catalogue
    /\ \A pid \in DOMAIN products :
          products[pid].quantity + UnitsSold(pid, Len(orders)) = Catalogue[pid].quantity
    /\ \A payload \in StockPayloads :
          LET r == create_order(products, orders, payload)
          IN  r.error # "none" => (r.products = products /\ r.orders = orders)

\* Two orders were placed; the first is canceled, the second delivered and
\* its product deactivated and deleted since; a checkout for more than the
\* stock has just failed.
C27_Witness ==
    /\ Len(orders) = 2
    /\ orders[1].status = "CANCELED"
    /\ orders[2].status = "DELIVERED"
    /\ UnitsSold(1, 2) = 2
    /\ products[1].quantity = 0
    /\ ~products[1].is_active
    /\ products[1].deleted_at # Null
    /\ products[2].quantity = Catalogue[2].quantity
    /\ last.op = "create_order"
    /\ last.error = "InsufficientStock"

\* C28: when several status requests for the same order run concurrently
\* (two cancels, or a cancel and a deliver/confirm), under every
\* interleaving of their read-status, restore-stock, write-status and commit
\* steps, once all have finished the order's stock has been restored
\* exactly once if its final status is CANCELED and not at all otherwise.
C28_AsStated ==
    (\A s \in Sessions : sessions[s].pc = "done") =>
        \A o \in DOMAIN orders : \A i \in DOMAIN orders[o].items :
            LET it == orders[o].items[i] IN
            products[it.product_id].quantity =
                IF orders[o].status = "CANCELED"
                THEN Catalogue[it.product_id].quantity
                ELSE Catalogue[it.product_id].quantity - it.quantity

\* C29: the result of a sheets sync attempt is recorded durably: after a
\* create-order request or a retry_sheets_sync request has completed and its
\* database session is closed, the order's stored sheets_status is SUCCESS
\* or FAILED according to the attempt, and is no longer the value it had
\* before the attempt.
C29_AsStated ==
    ( /\ last.op \in {"post_order", "retry_sheets_sync"}
      /\ last.error = "none"
      /\ last.ret # Null
      /\ last.appended \/ last.sheets_status = "FAILED" ) =>
        /\ orders[last.ret[1]].sheets_status \in {"SUCCESS", "FAILED"}
        /\ orders[last.ret[1]].sheets_status = last.sheets_status

====
